---- MODULE Spec2Model ----
(***************************************************************************)
(* A model of the CIL type checker of cilly (cilly/src/v2/typecheck.rs):   *)
(* BinOp::typecheck, CILNode::typecheck, CILRoot::typecheck and the        *)
(* diagnostic renderer typecheck_err_to_string / display_node, run over an *)
(* interning store (Assembly) that a frontend fills with nodes and roots.  *)
(***************************************************************************)
EXTENDS Integers, Sequences, FiniteSets, TLC

VARIABLES
    types,      \* Assembly's arena of interned types: handle = index
    nodes,      \* Assembly's arena of interned CILNodes: handle = index
    roots,      \* Assembly's arena of interned CILRoots: handle = index
    coerce,     \* the coercions Type::is_assignable_to permits beside equality
    unit,       \* the kind of code the frontend is lowering into the store
    last        \* the last call into the checker: its subject and its output

vars == <<types, nodes, roots, coerce, unit, last>>

(***************************************************************************)
(* Bounds of the model.                                                    *)
(***************************************************************************)
MaxEntities == 3    \* nodes plus roots the frontend interns
MaxArgs == 2        \* longest argument list of a call the frontend builds

(***************************************************************************)
(* The type algebra.                                                       *)
(***************************************************************************)
Ints == {"I8", "U8", "I16", "U16", "I32", "U32", "I64", "U64",
         "I128", "U128", "ISize", "USize"}
Floats == {"F32", "F64"}

Void == [k |-> "Void"]
Bool == [k |-> "Bool"]
IntT(i) == [k |-> "Int", int |-> i]
FloatT(f) == [k |-> "Float", float |-> f]
Ptr(h) == [k |-> "Ptr", inner |-> h]
Ref(h) == [k |-> "Ref", inner |-> h]
FnPtr(s) == [k |-> "FnPtr", sig |-> s]
ClassRef(c) == [k |-> "ClassRef", cref |-> c]
PlatformArray(e, d) == [k |-> "PlatformArray", elem |-> e, dims |-> d]
PlatformObject == [k |-> "PlatformObject"]
PlatformString == [k |-> "PlatformString"]

is_signed(i) == i \in {"I8", "I16", "I32", "I64", "I128", "ISize"}

as_unsigned(i) ==
    CASE i = "I8" -> "U8"
      [] i = "I16" -> "U16"
      [] i = "I32" -> "U32"
      [] i = "I64" -> "U64"
      [] i = "I128" -> "U128"
      [] i = "ISize" -> "USize"
      [] OTHER -> i

(***************************************************************************)
(* Results: Result<Type, TypeCheckError>, Result<(), TypeCheckError>, and  *)
(* a panic, which unwinds through every caller.                            *)
(***************************************************************************)
Ok(t) == [k |-> "Ok", tpe |-> t]
OkUnit == [k |-> "Ok"]
Err(e) == [k |-> "Err", err |-> e]
Panic == [k |-> "Panic"]
\* A call's outcome together with the type arena it leaves behind.
Ret(r, ts) == [r |-> r, ts |-> ts]

(***************************************************************************)
(* The unit the frontend hands over: class references, class definitions,  *)
(* field descriptors, signatures, method references, the locals and the    *)
(* signature of the function being checked.                                *)
(***************************************************************************)
\* Handles of the types the frontend interned before any check.
hVoid == 1
hU8 == 2
hI32 == 3
hClassV == 4
hClassG == 5
hPtrU8 == 6
hPtrV == 7
hPtrG == 8
hPtrVoid == 9
hClassO == 10
hArr == 11
hArr2 == 12
hBool == 13

\* Class references: V is a value type, G a reference type, O a value type
\* without a definition, E the exception class, H the runtime type handle.
cV == 1
cG == 2
cO == 3
cE == 4
cH == 5

ClassRefs ==
    << [name |-> "V", valuetype |-> TRUE],
       [name |-> "G", valuetype |-> FALSE],
       [name |-> "O", valuetype |-> TRUE],
       [name |-> "System.Exception", valuetype |-> FALSE],
       [name |-> "System.RuntimeTypeHandle", valuetype |-> TRUE] >>

InitTypes ==
    << Void, IntT("U8"), IntT("I32"), ClassRef(cV), ClassRef(cG),
       Ptr(hU8), Ptr(hClassV), Ptr(hClassG), Ptr(hVoid), ClassRef(cO),
       PlatformArray(hI32, 1), PlatformArray(hI32, 2), Bool >>

\* FieldDesc: (owner, name, declared type).
Fields ==
    << [owner |-> cV, name |-> "x", tpe |-> IntT("I32")],
       [owner |-> cV, name |-> "y", tpe |-> IntT("U8")],
       [owner |-> cG, name |-> "x", tpe |-> IntT("I32")],
       [owner |-> cO, name |-> "z", tpe |-> Ptr(hU8)] >>

\* StaticFieldDesc: (owner, name, declared type); the type of s is one the
\* arena does not hold before a check interns it.
StaticFields ==
    << [owner |-> cV, name |-> "s", tpe |-> IntT("I64")] >>

\* Class definitions: the fields (type, name) of the classes that have one.
ClassDefs ==
    [c \in {cV, cG} |->
        IF c = cV THEN { <<IntT("I32"), "x">> } ELSE { <<IntT("I32"), "x">> }]

\* FnSig: ordered inputs and one output.
sNone == 1
sOne == 2
sThree == 3
sSelf == 4
sPtrV == 5

Sigs ==
    << [inputs |-> << >>, output |-> Void],
       [inputs |-> << IntT("I32") >>, output |-> IntT("I32")],
       [inputs |-> << IntT("I32"), IntT("I32"), IntT("I32") >>, output |-> IntT("I32")],
       [inputs |-> << IntT("I32"), Ptr(hU8) >>, output |-> Void],
       [inputs |-> << Ptr(hClassV), IntT("I32") >>, output |-> IntT("U8")] >>

\* MethodRef: (name, signature, kind).
MethodRefs ==
    << [name |-> "f0", sig |-> sNone, kind |-> "Static"],
       [name |-> "f1", sig |-> sOne, kind |-> "Static"],
       [name |-> "f3", sig |-> sThree, kind |-> "Static"],
       [name |-> "m0", sig |-> sNone, kind |-> "Instance"],
       [name |-> "v1", sig |-> sOne, kind |-> "Virtual"],
       [name |-> "c0", sig |-> sNone, kind |-> "Constructor"],
       [name |-> "p1", sig |-> sPtrV, kind |-> "Static"] >>

\* The function being checked: its signature and its locals (type handles).
sig == sSelf
locals == << hPtrU8, hClassV, hClassG, hPtrV, hPtrG, hPtrVoid, hI32, hVoid >>

(***************************************************************************)
(* Assembly: interning and lookups.                                        *)
(***************************************************************************)
\* Assembly::alloc_type: the handle of t, appended when t is new.
alloc_type(ts, t) ==
    IF \E i \in 1..Len(ts) : ts[i] = t
    THEN [h |-> CHOOSE i \in 1..Len(ts) : ts[i] = t, ts |-> ts]
    ELSE [h |-> Len(ts) + 1, ts |-> Append(ts, t)]

\* Assembly::nref / Assembly::nptr: Ref / Ptr to the interned t.
nref(ts, t) == LET a == alloc_type(ts, t) IN [t |-> Ref(a.h), ts |-> a.ts]
nptr(ts, t) == LET a == alloc_type(ts, t) IN [t |-> Ptr(a.h), ts |-> a.ts]

class_ref_to_def(c) == IF c \in DOMAIN ClassDefs THEN {c} ELSE {}

is_valuetype(c) == ClassRefs[c].valuetype

(***************************************************************************)
(* Type: the projections and relations the checker uses.                   *)
(***************************************************************************)
as_int(t) == IF t.k = "Int" THEN {t.int} ELSE {}
as_class_ref(t) == IF t.k = "ClassRef" THEN {t.cref} ELSE {}
pointed_to(t) == IF t.k \in {"Ptr", "Ref"} THEN {t.inner} ELSE {}
try_deref(t, ts) == IF t.k \in {"Ptr", "Ref"} THEN {ts[t.inner]} ELSE {}

is_gcref(t) ==
    \/ t.k = "ClassRef" /\ ~is_valuetype(t.cref)
    \/ t.k \in {"PlatformObject", "PlatformString", "PlatformGeneric", "PlatformArray"}

\* The coercions a store may permit beside equality.
CoercionNames == {"RefToPtr"}

is_assignable_to(a, b) ==
    \/ a = b
    \/ /\ "RefToPtr" \in coerce
       /\ a.k = "Ref"
       /\ b.k = "Ptr"
       /\ a.inner = b.inner

\* Type::mangle: the display name, as the sequence of its parts.
RECURSIVE mangle(_, _)
mangle(t, ts) ==
    CASE t.k = "Int" -> << t.int >>
      [] t.k = "Float" -> << t.float >>
      [] t.k \in {"Ptr", "Ref"} -> << t.k >> \o mangle(ts[t.inner], ts)
      [] t.k = "ClassRef" -> << "ClassRef", ClassRefs[t.cref].name >>
      [] t.k = "FnPtr" -> << "FnPtr" >> \o mangle(Sigs[t.sig].output, ts)
      [] OTHER -> << t.k >>

(***************************************************************************)
(* BinOp::typecheck.                                                       *)
(***************************************************************************)
WrongBinopArgs(op, lhs, rhs) ==
    Err([kind |-> "WrongBinopArgs", lhs |-> lhs, rhs |-> rhs, op |-> op])

\* The `_ =>` arm shared by Add/Sub, Or/XOr/And, Rem, RemUn, the shifts and
\* the divisions.
IntFallback(op, lhs, rhs) ==
    IF is_assignable_to(lhs, rhs) /\ (as_int(lhs) # {} \/ as_int(rhs) # {})
    THEN Ok(IntT(IF as_int(lhs) # {} THEN lhs.int ELSE rhs.int))
    ELSE WrongBinopArgs(op, lhs, rhs)

\* The `_ =>` arm of Lt/Gt and LtUn/GtUn.
CmpFallback(op, lhs, rhs) ==
    IF lhs = rhs \/ is_assignable_to(lhs, rhs)
    THEN Ok(Bool)
    ELSE WrongBinopArgs(op, lhs, rhs)

SizeInts == {"ISize", "USize"}
ShiftRhs == {"USize", "ISize", "I32", "U32", "I16", "U16", "U8", "I8"}
DivUnInts == {"U64", "USize", "U32", "U16", "U8"}
DivInts == {"U64", "USize", "ISize", "I32", "U32", "I16", "U16", "U8", "I8"}

\* BinOp_AddSub giving equal integers narrower than 32 bits the type the
\* CIL evaluation stack holds them in.
BinOp_AddSub_Promoting(op, lhs, rhs) ==
    CASE lhs.k = "Int" /\ rhs.k = "Int" /\ rhs.int = lhs.int ->
            IF lhs.int \in {"I8", "U8", "I16", "U16"} THEN Ok(IntT("I32")) ELSE Ok(lhs)
      [] lhs.k = "Float" /\ rhs.k = "Float" /\ rhs.float = lhs.float -> Ok(lhs)
      [] lhs.k = "Ptr" /\ rhs.k = "Ptr" /\ rhs.inner = lhs.inner -> Ok(lhs)
      [] lhs.k = "FnPtr" /\ rhs.k = "FnPtr" /\ rhs.sig = lhs.sig -> Ok(lhs)
      [] lhs.k = "Ptr" /\ rhs.k = "Int" /\ rhs.int \in SizeInts -> Ok(lhs)
      [] lhs.k = "FnPtr" /\ rhs.k = "Int" /\ rhs.int \in SizeInts -> Ok(lhs)
      [] lhs.k = "Int" /\ lhs.int \in SizeInts /\ rhs.k \in {"Ptr", "FnPtr"} -> Ok(rhs)
      [] lhs.k = "Ref" /\ rhs.k = "Int" /\ rhs.int \in SizeInts -> Ok(lhs)
      [] OTHER -> IntFallback(op, lhs, rhs)

\* BinOp_AddSub with the check on void pointees that the source keeps
\* commented out.
BinOp_AddSub_VoidCheck(op, lhs, rhs) ==
    CASE lhs.k = "Int" /\ rhs.k = "Int" /\ rhs.int = lhs.int -> Ok(lhs)
      [] lhs.k = "Float" /\ rhs.k = "Float" /\ rhs.float = lhs.float -> Ok(lhs)
      [] lhs.k = "Ptr" /\ rhs.k = "Ptr" /\ rhs.inner = lhs.inner -> Ok(lhs)
      [] lhs.k = "FnPtr" /\ rhs.k = "FnPtr" /\ rhs.sig = lhs.sig -> Ok(lhs)
      [] lhs.k = "Ptr" /\ rhs.k = "Int" /\ rhs.int \in SizeInts ->
            IF types[lhs.inner] # Void THEN Ok(lhs)
            ELSE Err([kind |-> "VoidPointerOp", op |-> op])
      [] lhs.k = "FnPtr" /\ rhs.k = "Int" /\ rhs.int \in SizeInts -> Ok(lhs)
      [] lhs.k = "Int" /\ lhs.int \in SizeInts /\ rhs.k \in {"Ptr", "FnPtr"} -> Ok(rhs)
      [] lhs.k = "Ref" /\ rhs.k = "Int" /\ rhs.int \in SizeInts -> Ok(lhs)
      [] OTHER -> IntFallback(op, lhs, rhs)

BinOp_AddSub(op, lhs, rhs) ==
    CASE lhs.k = "Int" /\ rhs.k = "Int" /\ rhs.int = lhs.int -> Ok(lhs)
      [] lhs.k = "Float" /\ rhs.k = "Float" /\ rhs.float = lhs.float -> Ok(lhs)
      [] lhs.k = "Ptr" /\ rhs.k = "Ptr" /\ rhs.inner = lhs.inner -> Ok(lhs)
      [] lhs.k = "FnPtr" /\ rhs.k = "FnPtr" /\ rhs.sig = lhs.sig -> Ok(lhs)
      [] lhs.k = "Ptr" /\ rhs.k = "Int" /\ rhs.int \in SizeInts -> Ok(lhs)
      [] lhs.k = "FnPtr" /\ rhs.k = "Int" /\ rhs.int \in SizeInts -> Ok(lhs)
      [] lhs.k = "Int" /\ lhs.int \in SizeInts /\ rhs.k \in {"Ptr", "FnPtr"} -> Ok(rhs)
      [] lhs.k = "Ref" /\ rhs.k = "Int" /\ rhs.int \in SizeInts -> Ok(lhs)
      [] OTHER -> IntFallback(op, lhs, rhs)

\* BinOp_Eq without the value-type rule.
BinOp_Eq_AnyClass(op, lhs, rhs) ==
    IF lhs = rhs \/ is_assignable_to(lhs, rhs)
    THEN Ok(Bool)
    ELSE WrongBinopArgs(op, lhs, rhs)

BinOp_Eq(op, lhs, rhs) ==
    IF lhs = rhs \/ is_assignable_to(lhs, rhs)
    THEN IF lhs.k = "ClassRef"
         THEN IF is_valuetype(lhs.cref)
              THEN Err([kind |-> "ValueTypeCompare", lhs |-> lhs, rhs |-> rhs])
              ELSE Ok(Bool)
         ELSE Ok(Bool)
    ELSE WrongBinopArgs(op, lhs, rhs)

BinOp_Mul(op, lhs, rhs) ==
    CASE lhs.k = "Int" /\ rhs.k = "Int" /\ rhs.int = lhs.int -> Ok(lhs)
      [] lhs.k = "Float" /\ rhs.k = "Float" /\ rhs.float = lhs.float -> Ok(lhs)
      [] lhs.k = "Int" /\ lhs.int \in SizeInts /\ rhs.k \in {"Ptr", "FnPtr"} -> Ok(rhs)
      [] lhs = IntT("ISize") /\ rhs = IntT("I32") -> Ok(IntT("ISize"))
      [] lhs = IntT("USize") /\ rhs = IntT("I32") -> Ok(IntT("USize"))
      [] OTHER ->
            IF is_assignable_to(lhs, rhs) THEN Ok(rhs)
            ELSE IF is_assignable_to(rhs, lhs) THEN Ok(lhs)
            ELSE WrongBinopArgs(op, lhs, rhs)

BinOp_LtGtUn(op, lhs, rhs) ==
    CASE lhs.k = "Int" /\ rhs.k = "Int" /\ rhs.int = lhs.int -> Ok(Bool)
      [] lhs.k = "Float" /\ rhs.k = "Float" /\ rhs.float = lhs.float -> Ok(Bool)
      [] lhs.k = "Ptr" /\ rhs.k = "Ptr" /\ rhs.inner = lhs.inner -> Ok(Bool)
      [] lhs.k = "FnPtr" /\ rhs.k = "FnPtr" /\ rhs.sig = lhs.sig -> Ok(Bool)
      [] lhs = Bool /\ rhs = Bool -> Ok(Bool)
      [] OTHER -> CmpFallback(op, lhs, rhs)

BinOp_LtGt(op, lhs, rhs) ==
    CASE lhs.k = "Int" /\ rhs.k = "Int" /\ rhs.int = lhs.int -> Ok(Bool)
      [] lhs.k = "Float" /\ rhs.k = "Float" /\ rhs.float = lhs.float -> Ok(Bool)
      [] lhs = Bool /\ rhs = Bool -> Ok(Bool)
      [] OTHER -> CmpFallback(op, lhs, rhs)

BinOp_Bitwise(op, lhs, rhs) ==
    CASE lhs.k = "Int" /\ rhs.k = "Int" /\ rhs.int = lhs.int -> Ok(lhs)
      [] lhs = Bool /\ rhs = Bool -> Ok(Bool)
      [] OTHER -> IntFallback(op, lhs, rhs)

\* BinOp_Rem giving the remainder of two floats their float type.
BinOp_Rem_Float(op, lhs, rhs) ==
    CASE lhs.k = "Int" /\ rhs.k = "Int" /\ rhs.int = lhs.int /\ is_signed(rhs.int) ->
            Ok(lhs)
      [] lhs.k = "Float" /\ rhs.k = "Float" /\ rhs.float = lhs.float -> Ok(lhs)
      [] OTHER -> IntFallback(op, lhs, rhs)

BinOp_Rem(op, lhs, rhs) ==
    CASE lhs.k = "Int" /\ rhs.k = "Int" /\ rhs.int = lhs.int /\ is_signed(rhs.int) ->
            Ok(lhs)
      [] lhs.k = "Float" /\ rhs.k = "Float" /\ rhs.float = lhs.float -> Ok(Bool)
      [] OTHER -> IntFallback(op, lhs, rhs)

\* BinOp_RemUn holding to its signedness requirement: no fallback.
BinOp_RemUn_Strict(op, lhs, rhs) ==
    CASE lhs.k = "Int" /\ rhs.k = "Int" /\ rhs.int = lhs.int /\ ~is_signed(rhs.int) ->
            Ok(lhs)
      [] lhs.k = "Float" /\ rhs.k = "Float" /\ rhs.float = lhs.float -> Ok(Bool)
      [] OTHER -> WrongBinopArgs(op, lhs, rhs)

BinOp_RemUn(op, lhs, rhs) ==
    CASE lhs.k = "Int" /\ rhs.k = "Int" /\ rhs.int = lhs.int /\ ~is_signed(rhs.int) ->
            Ok(lhs)
      [] lhs.k = "Float" /\ rhs.k = "Float" /\ rhs.float = lhs.float -> Ok(Bool)
      [] OTHER -> IntFallback(op, lhs, rhs)

\* BinOp_Shl taking 64-bit shift amounts as well.
BinOp_Shl_Wide(op, lhs, rhs) ==
    CASE lhs.k = "Int" /\ rhs.k = "Int" /\ rhs.int \in ShiftRhs \cup {"I64", "U64"} ->
            Ok(lhs)
      [] OTHER -> IntFallback(op, lhs, rhs)

BinOp_Shl(op, lhs, rhs) ==
    CASE lhs.k = "Int" /\ rhs.k = "Int" /\ rhs.int \in ShiftRhs -> Ok(lhs)
      [] OTHER -> IntFallback(op, lhs, rhs)

BinOp_Shr(op, lhs, rhs) ==
    CASE lhs.k = "Int" /\ rhs.k = "Int" /\ rhs.int \in ShiftRhs /\ is_signed(lhs.int) ->
            Ok(lhs)
      [] OTHER -> IntFallback(op, lhs, rhs)

BinOp_ShrUn(op, lhs, rhs) ==
    CASE lhs.k = "Int" /\ rhs.k = "Int" /\ rhs.int \in ShiftRhs /\ ~is_signed(lhs.int) ->
            Ok(lhs)
      [] OTHER -> IntFallback(op, lhs, rhs)

BinOp_DivUn(op, lhs, rhs) ==
    CASE /\ lhs.k = "Int" /\ lhs.int \in DivUnInts
         /\ rhs.k = "Int" /\ rhs.int \in DivUnInts
         /\ lhs.int = rhs.int -> Ok(lhs)
      [] OTHER -> IntFallback(op, lhs, rhs)

BinOp_Div(op, lhs, rhs) ==
    CASE /\ lhs.k = "Int" /\ lhs.int \in DivInts
         /\ rhs.k = "Int" /\ rhs.int \in DivInts
         /\ is_signed(lhs.int) /\ lhs.int = rhs.int -> Ok(lhs)
      [] lhs.k = "Float" /\ rhs.k = "Float" /\ rhs.float = lhs.float -> Ok(lhs)
      [] OTHER -> IntFallback(op, lhs, rhs)

BinOps == {"Add", "Sub", "Eq", "Mul", "LtUn", "GtUn", "Lt", "Gt", "Or", "XOr",
           "And", "Rem", "RemUn", "Shl", "Shr", "ShrUn", "DivUn", "Div"}

BinOp_typecheck(op, lhs, rhs) ==
    CASE op \in {"Add", "Sub"} -> BinOp_AddSub(op, lhs, rhs)
      [] op = "Eq" -> BinOp_Eq(op, lhs, rhs)
      [] op = "Mul" -> BinOp_Mul(op, lhs, rhs)
      [] op \in {"LtUn", "GtUn"} -> BinOp_LtGtUn(op, lhs, rhs)
      [] op \in {"Lt", "Gt"} -> BinOp_LtGt(op, lhs, rhs)
      [] op \in {"Or", "XOr", "And"} -> BinOp_Bitwise(op, lhs, rhs)
      [] op = "Rem" -> BinOp_Rem(op, lhs, rhs)
      [] op = "RemUn" -> BinOp_RemUn(op, lhs, rhs)
      [] op = "Shl" -> BinOp_Shl(op, lhs, rhs)
      [] op = "Shr" -> BinOp_Shr(op, lhs, rhs)
      [] op = "ShrUn" -> BinOp_ShrUn(op, lhs, rhs)
      [] op = "DivUn" -> BinOp_DivUn(op, lhs, rhs)
      [] op = "Div" -> BinOp_Div(op, lhs, rhs)

(***************************************************************************)
(* CILNode::typecheck.  Every operator takes the node and the type arena   *)
(* and returns the result with the arena as the call leaves it.            *)
(***************************************************************************)
RECURSIVE CILNode_typecheck(_, _)

\* Const::get_type.
get_type(cst) ==
    CASE cst \in Ints -> IntT(cst)
      [] cst \in Floats -> FloatT(cst)
      [] cst = "Bool" -> Bool
      [] cst = "Null" -> ClassRef(cG)
      [] OTHER -> PlatformString

\* MethodRef::stack_inputs and MethodRef::output.
stack_inputs(mref) == Sigs[mref.sig].inputs
output(mref) == Sigs[mref.sig].output

\* Node_BinOp checking the right operand before the left one.
Node_BinOp_RhsFirst(n, ts) ==
    LET rhs == CILNode_typecheck(nodes[n.rhs], ts) IN
    IF rhs.r.k # "Ok" THEN rhs ELSE
    LET lhs == CILNode_typecheck(nodes[n.lhs], rhs.ts) IN
    IF lhs.r.k # "Ok" THEN lhs ELSE
    Ret(BinOp_typecheck(n.bop, lhs.r.tpe, rhs.r.tpe), lhs.ts)

Node_BinOp(n, ts) ==
    LET lhs == CILNode_typecheck(nodes[n.lhs], ts) IN
    IF lhs.r.k # "Ok" THEN lhs ELSE
    LET rhs == CILNode_typecheck(nodes[n.rhs], lhs.ts) IN
    IF rhs.r.k # "Ok" THEN rhs ELSE
    Ret(BinOp_typecheck(n.bop, lhs.r.tpe, rhs.r.tpe), rhs.ts)

Node_UnOp(n, ts) ==
    LET arg == CILNode_typecheck(nodes[n.arg], ts) IN
    IF arg.r.k # "Ok" THEN arg ELSE
    LET arg_type == arg.r.tpe IN
    CASE arg_type.k \in {"Int", "Float", "Ptr"} /\ n.uop = "Not" -> arg
      [] arg_type.k = "Int" /\ n.uop = "Neg" /\ is_signed(arg_type.int) -> arg
      [] arg_type.k \in {"Float", "Ptr"} /\ n.uop = "Neg" -> arg
      [] OTHER -> Ret(Err([kind |-> "WrongUnOpArgs", tpe |-> arg_type, op |-> n.uop]),
                      arg.ts)

\* locals[*loc as usize] and asm[sig].inputs()[*arg as usize]: the index is
\* zero-based and an index past the end panics.
Node_LdLoc(n, ts) ==
    IF n.loc >= Len(locals) THEN Ret(Panic, ts)
    ELSE Ret(Ok(ts[locals[n.loc + 1]]), ts)

\* Node_LdLocA giving the local's type a new handle at every check.
Node_LdLocA_Push(n, ts) ==
    IF n.loc >= Len(locals) THEN Ret(Panic, ts)
    ELSE Ret(Ok(Ref(Len(ts) + 1)), Append(ts, ts[locals[n.loc + 1]]))

Node_LdLocA(n, ts) ==
    IF n.loc >= Len(locals) THEN Ret(Panic, ts)
    ELSE LET r == nref(ts, ts[locals[n.loc + 1]]) IN Ret(Ok(r.t), r.ts)

Node_LdArg(n, ts) ==
    IF n.arg >= Len(Sigs[sig].inputs) THEN Ret(Panic, ts)
    ELSE Ret(Ok(Sigs[sig].inputs[n.arg + 1]), ts)

Node_LdArgA(n, ts) ==
    IF n.arg >= Len(Sigs[sig].inputs) THEN Ret(Panic, ts)
    ELSE LET r == nref(ts, Sigs[sig].inputs[n.arg + 1]) IN Ret(Ok(r.t), r.ts)

\* The acceptance test of one argument of a direct call node.
\* CallArgAccepted without the test on equal pointees.
CallArgAccepted_Assignable(arg_type, input_type, ts) ==
    is_assignable_to(arg_type, input_type)

CallArgAccepted(arg_type, input_type, ts) ==
    \/ is_assignable_to(arg_type, input_type)
    \/ /\ try_deref(arg_type, ts) # {}
       /\ try_deref(arg_type, ts) = try_deref(input_type, ts)

\* The loop over args.iter().zip(inputs.iter()).enumerate(), from position
\* idx (zero-based) on.
RECURSIVE Node_CallArgs(_, _, _, _, _)
Node_CallArgs(args, inputs, idx, mname, ts) ==
    IF idx >= Len(args) \/ idx >= Len(inputs) THEN Ret(OkUnit, ts) ELSE
    LET arg == CILNode_typecheck(nodes[args[idx + 1]], ts) IN
    IF arg.r.k # "Ok" THEN arg ELSE
    IF ~CallArgAccepted(arg.r.tpe, inputs[idx + 1], arg.ts)
    THEN Ret(Err([kind |-> "CallArgTypeWrong",
                  got |-> mangle(arg.r.tpe, arg.ts),
                  expected |-> mangle(inputs[idx + 1], arg.ts),
                  idx |-> idx, mname |-> mname]), arg.ts)
    ELSE Node_CallArgs(args, inputs, idx + 1, mname, arg.ts)

Node_Call(n, ts) ==
    LET mref == MethodRefs[n.mref]
        inputs == stack_inputs(mref)
    IN  IF Len(n.args) # Len(inputs)
        THEN Ret(Err([kind |-> "CallArgcWrong", expected |-> Len(inputs),
                      got |-> Len(n.args), mname |-> mref.name]), ts)
        ELSE LET loop == Node_CallArgs(n.args, inputs, 0, mref.name, ts) IN
             IF loop.r.k # "Ok" THEN loop
             ELSE Ret(Ok(output(mref)), loop.ts)

RECURSIVE Node_CallIArgs(_, _, _, _)
Node_CallIArgs(args, inputs, idx, ts) ==
    IF idx >= Len(args) \/ idx >= Len(inputs) THEN Ret(OkUnit, ts) ELSE
    LET arg == CILNode_typecheck(nodes[args[idx + 1]], ts) IN
    IF arg.r.k # "Ok" THEN arg ELSE
    IF ~is_assignable_to(arg.r.tpe, inputs[idx + 1])
    THEN Ret(Err([kind |-> "IndirectCallArgTypeWrong", got |-> arg.r.tpe,
                  expected |-> inputs[idx + 1], idx |-> idx]), arg.ts)
    ELSE Node_CallIArgs(args, inputs, idx + 1, arg.ts)

\* Node_CallI with the function-pointer test moved ahead of the argument
\* checks.
Node_CallI_FnPtrFirst(n, ts) ==
    LET fn_ptr == CILNode_typecheck(nodes[n.fn_ptr], ts) IN
    IF fn_ptr.r.k # "Ok" THEN fn_ptr ELSE
    LET called_sig == Sigs[n.sig] IN
    IF fn_ptr.r.tpe.k # "FnPtr"
    THEN Ret(Err([kind |-> "IndirectCallInvalidFnPtrType", fn_ptr |-> fn_ptr.r.tpe]),
             fn_ptr.ts)
    ELSE
    IF Len(n.args) # Len(called_sig.inputs)
    THEN Ret(Err([kind |-> "IndirectCallArgcWrong",
                  expected |-> Len(called_sig.inputs), got |-> Len(n.args)]),
             fn_ptr.ts)
    ELSE
    LET loop == Node_CallIArgs(n.args, called_sig.inputs, 0, fn_ptr.ts) IN
    IF loop.r.k # "Ok" THEN loop ELSE
    IF Sigs[fn_ptr.r.tpe.sig] # called_sig
    THEN Ret(Err([kind |-> "IndirectCallInvalidFnPtrSig", expected |-> called_sig,
                  got |-> Sigs[fn_ptr.r.tpe.sig]]), loop.ts)
    ELSE Ret(Ok(called_sig.output), loop.ts)

Node_CallI(n, ts) ==
    LET fn_ptr == CILNode_typecheck(nodes[n.fn_ptr], ts) IN
    IF fn_ptr.r.k # "Ok" THEN fn_ptr ELSE
    LET called_sig == Sigs[n.sig] IN
    IF Len(n.args) # Len(called_sig.inputs)
    THEN Ret(Err([kind |-> "IndirectCallArgcWrong",
                  expected |-> Len(called_sig.inputs), got |-> Len(n.args)]),
             fn_ptr.ts)
    ELSE
    LET loop == Node_CallIArgs(n.args, called_sig.inputs, 0, fn_ptr.ts) IN
    IF loop.r.k # "Ok" THEN loop ELSE
    IF fn_ptr.r.tpe.k # "FnPtr"
    THEN Ret(Err([kind |-> "IndirectCallInvalidFnPtrType", fn_ptr |-> fn_ptr.r.tpe]),
             loop.ts)
    ELSE IF Sigs[fn_ptr.r.tpe.sig] # called_sig
    THEN Ret(Err([kind |-> "IndirectCallInvalidFnPtrSig", expected |-> called_sig,
                  got |-> Sigs[fn_ptr.r.tpe.sig]]), loop.ts)
    ELSE Ret(Ok(called_sig.output), loop.ts)

Node_IntCast(n, ts) ==
    LET input == CILNode_typecheck(nodes[n.input], ts) IN
    IF input.r.k # "Ok" THEN input ELSE
    IF input.r.tpe.k \in {"Float", "Int", "Ptr", "FnPtr", "Bool"}
    THEN Ret(Ok(IntT(n.target)), input.ts)
    ELSE Ret(Err([kind |-> "IntCastInvalidInput", got |-> input.r.tpe,
                  target |-> n.target]), input.ts)

Node_FloatCast(n, ts) ==
    LET input == CILNode_typecheck(nodes[n.input], ts) IN
    IF input.r.k # "Ok" THEN input ELSE
    IF input.r.tpe.k \in {"Float", "Int"}
    THEN Ret(Ok(FloatT(n.target)), input.ts)
    ELSE Ret(Err([kind |-> "FloatCastInvalidInput", got |-> input.r.tpe,
                  target |-> n.target]), input.ts)

Node_RefToPtr(n, ts) ==
    LET refn == CILNode_typecheck(nodes[n.arg], ts) IN
    IF refn.r.k # "Ok" THEN refn ELSE
    LET tpe == refn.r.tpe IN
    IF tpe.k \in {"Ref", "Ptr"}
    THEN LET r == nptr(refn.ts, refn.ts[tpe.inner]) IN Ret(Ok(r.t), r.ts)
    ELSE Ret(Err([kind |-> "RefToPtrArgNotRef", arg |-> tpe]), refn.ts)

ManagedPtrCast(arg_tpe, res, ts) ==
    Err([kind |-> "ManagedPtrCast", src |-> mangle(arg_tpe, ts),
         dst |-> mangle(res, ts)])

\* Node_PtrCast testing only the declared result, not the input's pointee.
Node_PtrCast_ResOnly(n, ts) ==
    LET arg == CILNode_typecheck(nodes[n.arg], ts) IN
    IF arg.r.k # "Ok" THEN arg ELSE
    LET arg_tpe == arg.r.tpe IN
    IF ~(\/ arg_tpe.k \in {"Ptr", "Ref", "FnPtr"}
         \/ arg_tpe.k = "Int" /\ arg_tpe.int \in SizeInts)
    THEN Ret(Err([kind |-> "InvalidPtrCast", expected |-> n.res, got |-> arg_tpe]),
             arg.ts)
    ELSE IF is_gcref(n.res)
    THEN Ret(ManagedPtrCast(arg_tpe, n.res, arg.ts), arg.ts)
    ELSE Ret(Ok(n.res), arg.ts)

\* n.res is the declared result, PtrCastRes::as_type.
Node_PtrCast(n, ts) ==
    LET arg == CILNode_typecheck(nodes[n.arg], ts) IN
    IF arg.r.k # "Ok" THEN arg ELSE
    LET arg_tpe == arg.r.tpe IN
    IF arg_tpe.k \in {"Ptr", "Ref"} /\ is_gcref(arg.ts[arg_tpe.inner])
    THEN Ret(ManagedPtrCast(arg_tpe, n.res, arg.ts), arg.ts)
    ELSE IF ~(\/ arg_tpe.k \in {"Ptr", "Ref", "FnPtr"}
              \/ arg_tpe.k = "Int" /\ arg_tpe.int \in SizeInts)
    THEN Ret(Err([kind |-> "InvalidPtrCast", expected |-> n.res, got |-> arg_tpe]),
             arg.ts)
    ELSE IF is_gcref(n.res)
    THEN Ret(ManagedPtrCast(arg_tpe, n.res, arg.ts), arg.ts)
    ELSE Ret(Ok(n.res), arg.ts)

\* The base type a field access looks through: Ptr/Ref give the pointee, a
\* ClassRef stands for itself, anything else has none.
\* FieldBase taking no base that is directly a ClassRef.
FieldBase_Indirect(addr_tpe, ts) ==
    CASE addr_tpe.k \in {"Ptr", "Ref"} -> {ts[addr_tpe.inner]}
      [] OTHER -> {}

FieldBase(addr_tpe, ts) ==
    CASE addr_tpe.k \in {"Ptr", "Ref"} -> {ts[addr_tpe.inner]}
      [] addr_tpe.k = "ClassRef" -> {addr_tpe}
      [] OTHER -> {}

\* "Check that this type owns a matching field": false only when the owner
\* has a definition that lists no field of this type and name.
FieldInDef(field) ==
    \A cdef \in class_ref_to_def(field.owner) :
        <<field.tpe, field.name>> \in ClassDefs[cdef]

FieldNotPresent(field) ==
    Err([kind |-> "FieldNotPresent", tpe |-> field.tpe, name |-> field.name,
         owner |-> field.owner])

Node_LdFieldAddress(n, ts) ==
    LET field == Fields[n.field]
        addr == CILNode_typecheck(nodes[n.addr], ts)
    IN  IF addr.r.k # "Ok" THEN addr ELSE
        LET addr_tpe == addr.r.tpe
            pointed == FieldBase(addr_tpe, addr.ts)
        IN  IF pointed = {}
            THEN Ret(Err([kind |-> "TypeNotPtr", tpe |-> addr_tpe]), addr.ts) ELSE
            LET pointed_tpe == CHOOSE t \in pointed : TRUE IN
            IF pointed_tpe.k # "ClassRef"
            THEN Ret(Err([kind |-> "FieldAccessInvalidType", tpe |-> pointed_tpe,
                          field |-> field]), addr.ts)
            ELSE IF pointed_tpe.cref # field.owner
            THEN Ret(Err([kind |-> "FieldOwnerMismatch", owner |-> pointed_tpe.cref,
                          expected_owner |-> field.owner, field |-> field]), addr.ts)
            ELSE IF ~FieldInDef(field)
            THEN Ret(FieldNotPresent(field), addr.ts)
            ELSE CASE addr_tpe.k = "Ref" ->
                        LET r == nref(addr.ts, field.tpe) IN Ret(Ok(r.t), r.ts)
                   [] addr_tpe.k = "Ptr" ->
                        LET r == nptr(addr.ts, field.tpe) IN Ret(Ok(r.t), r.ts)
                   [] OTHER -> Ret(Panic, addr.ts)

\* Node_LdField looking the field up in its owner's definition before
\* comparing the owners.
Node_LdField_DefFirst(n, ts) ==
    LET field == Fields[n.field]
        addr == CILNode_typecheck(nodes[n.addr], ts)
    IN  IF addr.r.k # "Ok" THEN addr ELSE
        LET addr_tpe == addr.r.tpe
            pointed == FieldBase(addr_tpe, addr.ts)
        IN  IF pointed = {}
            THEN Ret(Err([kind |-> "TypeNotPtr", tpe |-> addr_tpe]), addr.ts) ELSE
            LET pointed_tpe == CHOOSE t \in pointed : TRUE IN
            IF pointed_tpe.k # "ClassRef"
            THEN Ret(Err([kind |-> "FieldAccessInvalidType", tpe |-> pointed_tpe,
                          field |-> field]), addr.ts)
            ELSE IF ~FieldInDef(field)
            THEN Ret(FieldNotPresent(field), addr.ts)
            ELSE IF pointed_tpe.cref # field.owner
            THEN Ret(Err([kind |-> "FieldOwnerMismatch", owner |-> pointed_tpe.cref,
                          expected_owner |-> field.owner, field |-> field]), addr.ts)
            ELSE Ret(Ok(field.tpe), addr.ts)

Node_LdField(n, ts) ==
    LET field == Fields[n.field]
        addr == CILNode_typecheck(nodes[n.addr], ts)
    IN  IF addr.r.k # "Ok" THEN addr ELSE
        LET addr_tpe == addr.r.tpe
            pointed == FieldBase(addr_tpe, addr.ts)
        IN  IF pointed = {}
            THEN Ret(Err([kind |-> "TypeNotPtr", tpe |-> addr_tpe]), addr.ts) ELSE
            LET pointed_tpe == CHOOSE t \in pointed : TRUE IN
            IF pointed_tpe.k # "ClassRef"
            THEN Ret(Err([kind |-> "FieldAccessInvalidType", tpe |-> pointed_tpe,
                          field |-> field]), addr.ts)
            ELSE IF pointed_tpe.cref # field.owner
            THEN Ret(Err([kind |-> "FieldOwnerMismatch", owner |-> pointed_tpe.cref,
                          expected_owner |-> field.owner, field |-> field]), addr.ts)
            ELSE IF ~FieldInDef(field)
            THEN Ret(FieldNotPresent(field), addr.ts)
            ELSE Ret(Ok(field.tpe), addr.ts)

Node_LdInd(n, ts) ==
    LET addr == CILNode_typecheck(nodes[n.addr], ts) IN
    IF addr.r.k # "Ok" THEN addr ELSE
    LET addr_tpe == addr.r.tpe IN
    IF pointed_to(addr_tpe) = {}
    THEN Ret(Err([kind |-> "TypeNotPtr", tpe |-> addr_tpe]), addr.ts) ELSE
    LET pointed_tpe == addr.ts[addr_tpe.inner]
        tpe == addr.ts[n.tpe]
    IN  IF ~is_assignable_to(pointed_tpe, tpe)
        THEN Ret(Err([kind |-> "DerfWrongPtr", expected |-> tpe, got |-> pointed_tpe]),
                 addr.ts)
        ELSE Ret(Ok(pointed_tpe), addr.ts)

\* Node_SizeOf without the Void arm.
Node_SizeOf_AnyType(n, ts) == Ret(Ok(IntT("I32")), ts)

Node_SizeOf(n, ts) ==
    IF ts[n.tpe] = Void
    THEN Ret(Err([kind |-> "SizeOfVoid"]), ts)
    ELSE Ret(Ok(IntT("I32")), ts)

Node_GetException(n, ts) == Ret(Ok(ClassRef(cE)), ts)

Node_IsInst(n, ts) ==
    LET obj == CILNode_typecheck(nodes[n.obj], ts) IN
    IF obj.r.k # "Ok" THEN obj ELSE Ret(Ok(Bool), obj.ts)

Node_CheckedCast(n, ts) ==
    LET obj == CILNode_typecheck(nodes[n.obj], ts) IN
    IF obj.r.k # "Ok" THEN obj ELSE Ret(Ok(obj.ts[n.res]), obj.ts)

Node_LocAlloc(n, ts) ==
    LET size == CILNode_typecheck(nodes[n.size], ts) IN
    IF size.r.k # "Ok" THEN size ELSE
    LET r == nptr(size.ts, IntT("U8")) IN Ret(Ok(r.t), r.ts)

Node_LdStaticField(n, ts) == Ret(Ok(StaticFields[n.sfld].tpe), ts)

\* Node_LdStaticFieldAddress pushing the field's type onto the arena without
\* looking it up first.
Node_LdStaticFieldAddress_Push(n, ts) ==
    Ret(Ok(Ptr(Len(ts) + 1)), Append(ts, StaticFields[n.sfld].tpe))

Node_LdStaticFieldAddress(n, ts) ==
    LET r == nptr(ts, StaticFields[n.sfld].tpe) IN Ret(Ok(r.t), r.ts)

Node_LdFtn(n, ts) == Ret(Ok(FnPtr(MethodRefs[n.mref].sig)), ts)

Node_LdTypeToken(n, ts) == Ret(Ok(ClassRef(cH)), ts)

Node_LdLen(n, ts) ==
    LET arr == CILNode_typecheck(nodes[n.arr], ts) IN
    IF arr.r.k # "Ok" THEN arr ELSE
    IF arr.r.tpe.k # "PlatformArray"
    THEN Ret(Err([kind |-> "LdLenArgNotArray", got |-> arr.r.tpe]), arr.ts)
    ELSE IF arr.r.tpe.dims # 1
    THEN Ret(Err([kind |-> "LdLenArrNot1D", got |-> arr.r.tpe]), arr.ts)
    ELSE Ret(Ok(IntT("I32")), arr.ts)

Node_LocAllocAlgined(n, ts) == Ret(Ok(Ptr(n.tpe)), ts)

IndexInts == {"I32", "U32", "I64", "USize", "ISize"}

Node_LdElelemRef(n, ts) ==
    LET arr == CILNode_typecheck(nodes[n.array], ts) IN
    IF arr.r.k # "Ok" THEN arr ELSE
    LET index == CILNode_typecheck(nodes[n.index], arr.ts) IN
    IF index.r.k # "Ok" THEN index ELSE
    IF arr.r.tpe.k # "PlatformArray"
    THEN Ret(Err([kind |-> "LdLenArgNotArray", got |-> arr.r.tpe]), index.ts)
    ELSE IF arr.r.tpe.dims # 1
    THEN Ret(Err([kind |-> "LdLenArrNot1D", got |-> arr.r.tpe]), index.ts)
    ELSE IF ~(index.r.tpe.k = "Int" /\ index.r.tpe.int \in IndexInts)
    THEN Ret(Err([kind |-> "ArrIndexInvalidType", index_tpe |-> index.r.tpe]),
             index.ts)
    ELSE Ret(Ok(index.ts[arr.r.tpe.elem]), index.ts)

Node_UnboxAny(n, ts) ==
    LET object == CILNode_typecheck(nodes[n.object], ts) IN
    IF object.r.k # "Ok" THEN object ELSE
    LET o == object.r.tpe IN
    IF o.k = "ClassRef" /\ is_valuetype(o.cref)
    THEN Ret(Err([kind |-> "ExpectedClassGotValuetype", cref |-> ClassRefs[o.cref]]),
             object.ts)
    ELSE IF o.k \notin {"ClassRef", "PlatformObject", "PlatformGeneric",
                        "PlatformString"}
    THEN Ret(Err([kind |-> "TypeNotClass", object |-> o]), object.ts)
    ELSE Ret(Ok(object.ts[n.tpe]), object.ts)

CILNode_typecheck(n, ts) ==
    CASE n.op = "Const" -> Ret(Ok(get_type(n.cst)), ts)
      [] n.op = "BinOp" -> Node_BinOp(n, ts)
      [] n.op = "UnOp" -> Node_UnOp(n, ts)
      [] n.op = "LdLoc" -> Node_LdLoc(n, ts)
      [] n.op = "LdLocA" -> Node_LdLocA(n, ts)
      [] n.op = "LdArg" -> Node_LdArg(n, ts)
      [] n.op = "LdArgA" -> Node_LdArgA(n, ts)
      [] n.op = "Call" -> Node_Call(n, ts)
      [] n.op = "CallI" -> Node_CallI(n, ts)
      [] n.op = "IntCast" -> Node_IntCast(n, ts)
      [] n.op = "FloatCast" -> Node_FloatCast(n, ts)
      [] n.op = "RefToPtr" -> Node_RefToPtr(n, ts)
      [] n.op = "PtrCast" -> Node_PtrCast(n, ts)
      [] n.op = "LdFieldAddress" -> Node_LdFieldAddress(n, ts)
      [] n.op = "LdField" -> Node_LdField(n, ts)
      [] n.op = "LdInd" -> Node_LdInd(n, ts)
      [] n.op = "SizeOf" -> Node_SizeOf(n, ts)
      [] n.op = "GetException" -> Node_GetException(n, ts)
      [] n.op = "IsInst" -> Node_IsInst(n, ts)
      [] n.op = "CheckedCast" -> Node_CheckedCast(n, ts)
      [] n.op = "LocAlloc" -> Node_LocAlloc(n, ts)
      [] n.op = "LdStaticField" -> Node_LdStaticField(n, ts)
      [] n.op = "LdStaticFieldAddress" -> Node_LdStaticFieldAddress(n, ts)
      [] n.op = "LdFtn" -> Node_LdFtn(n, ts)
      [] n.op = "LdTypeToken" -> Node_LdTypeToken(n, ts)
      [] n.op = "LdLen" -> Node_LdLen(n, ts)
      [] n.op = "LocAllocAlgined" -> Node_LocAllocAlgined(n, ts)
      [] n.op = "LdElelemRef" -> Node_LdElelemRef(n, ts)
      [] n.op = "UnboxAny" -> Node_UnboxAny(n, ts)

(***************************************************************************)
(* CILRoot::typecheck.  An operand's outcome, once computed, is handed on  *)
(* as an argument: `got`, `addr`, `value` ... below are those outcomes.    *)
(***************************************************************************)
\* StLoc after `let got = asm.get_node(*node).typecheck(..)?`.
StLoc_assign(r, got) ==
    IF r.loc >= Len(locals) THEN Ret(Panic, got.ts) ELSE
    LET expected == got.ts[locals[r.loc + 1]] IN
    IF ~is_assignable_to(got.r.tpe, expected)
    THEN Ret(Err([kind |-> "LocalAssigementWrong", loc |-> r.loc,
                  got |-> mangle(got.r.tpe, got.ts),
                  expected |-> mangle(expected, got.ts)]), got.ts)
    ELSE Ret(OkUnit, got.ts)

StLoc_got(r, got) == IF got.r.k # "Ok" THEN got ELSE StLoc_assign(r, got)

Root_StLoc(r, ts) == StLoc_got(r, CILNode_typecheck(nodes[r.node], ts))

RelationalConds == {"Eq", "Ne", "Lt", "Gt", "Le", "Ge"}

\* A True/False condition after its node was checked.
Branch_cond(cond) ==
    IF cond.r.k # "Ok" THEN cond ELSE
    IF cond.r.tpe.k \in {"Bool", "Int"} THEN Ret(OkUnit, cond.ts)
    ELSE Ret(Err([kind |-> "ConditionNotBool", cond |-> cond.r.tpe]), cond.ts)

\* A relational condition after both operands were checked.
Branch_rhs(lhs, rhs) ==
    IF rhs.r.k # "Ok" THEN rhs ELSE
    IF /\ is_assignable_to(lhs.r.tpe, rhs.r.tpe)
       /\ \A cref \in as_class_ref(lhs.r.tpe) : ~is_valuetype(cref)
    THEN Ret(OkUnit, rhs.ts)
    ELSE Ret(Err([kind |-> "CantCompareTypes", lhs |-> lhs.r.tpe,
                  rhs |-> rhs.r.tpe]), rhs.ts)

Branch_lhs(r, lhs) ==
    IF lhs.r.k # "Ok" THEN lhs
    ELSE Branch_rhs(lhs, CILNode_typecheck(nodes[r.cond.rhs], lhs.ts))

Root_Branch(r, ts) ==
    IF r.cond.c = "None" THEN Ret(OkUnit, ts)
    ELSE IF r.cond.c \in {"True", "False"}
    THEN Branch_cond(CILNode_typecheck(nodes[r.cond.node], ts))
    ELSE Branch_lhs(r, CILNode_typecheck(nodes[r.cond.lhs], ts))

\* StInd_value testing the value against the declared type before the
\* address.
StInd_value_ValueFirst(r, addr, value) ==
    IF value.r.k # "Ok" THEN value ELSE
    IF ~(\/ is_assignable_to(value.r.tpe, r.tpe)
         \/ /\ value.r.tpe.k = "Int"
            /\ r.tpe.k = "Int"
            /\ as_unsigned(value.r.tpe.int) = as_unsigned(r.tpe.int)
         \/ value.r.tpe = Bool /\ r.tpe = IntT("I8"))
    THEN Ret(Err([kind |-> "WriteWrongValue", tpe |-> r.tpe,
                  value |-> value.r.tpe]), value.ts)
    ELSE IF \/ pointed_to(addr.r.tpe) = {}
            \/ ~(\/ is_assignable_to(r.tpe, value.ts[addr.r.tpe.inner])
                 \/ /\ value.ts[addr.r.tpe.inner].k = "Int"
                    /\ r.tpe.k = "Int"
                    /\ as_unsigned(value.ts[addr.r.tpe.inner].int) = as_unsigned(r.tpe.int)
                 \/ value.ts[addr.r.tpe.inner] = Bool /\ r.tpe = IntT("I8"))
    THEN Ret(Err([kind |-> "WriteWrongAddr", addr |-> mangle(addr.r.tpe, value.ts),
                  tpe |-> mangle(r.tpe, value.ts)]), value.ts)
    ELSE Ret(OkUnit, value.ts)

\* StInd after the address and the value were checked.
StInd_value(r, addr, value) ==
    IF value.r.k # "Ok" THEN value ELSE
    LET WriteWrongAddr ==
            Err([kind |-> "WriteWrongAddr", addr |-> mangle(addr.r.tpe, value.ts),
                 tpe |-> mangle(r.tpe, value.ts)])
    IN  IF pointed_to(addr.r.tpe) = {} THEN Ret(WriteWrongAddr, value.ts) ELSE
        LET addr_points_to == value.ts[addr.r.tpe.inner] IN
        IF ~(\/ is_assignable_to(r.tpe, addr_points_to)
             \/ /\ addr_points_to.k = "Int"
                /\ r.tpe.k = "Int"
                /\ as_unsigned(addr_points_to.int) = as_unsigned(r.tpe.int)
             \/ addr_points_to = Bool /\ r.tpe = IntT("I8"))
        THEN Ret(WriteWrongAddr, value.ts)
        ELSE IF ~(\/ is_assignable_to(value.r.tpe, r.tpe)
                  \/ /\ value.r.tpe.k = "Int"
                     /\ r.tpe.k = "Int"
                     /\ as_unsigned(value.r.tpe.int) = as_unsigned(r.tpe.int)
                  \/ value.r.tpe = Bool /\ r.tpe = IntT("I8"))
        THEN Ret(Err([kind |-> "WriteWrongValue", tpe |-> r.tpe,
                      value |-> value.r.tpe]), value.ts)
        ELSE Ret(OkUnit, value.ts)

StInd_addr(r, addr) ==
    IF addr.r.k # "Ok" THEN addr
    ELSE StInd_value(r, addr, CILNode_typecheck(nodes[r.value], addr.ts))

Root_StInd(r, ts) == StInd_addr(r, CILNode_typecheck(nodes[r.addr], ts))

\* SetField after the address and the value were checked.
SetField_val(r, addr, val) ==
    IF val.r.k # "Ok" THEN val ELSE
    LET field == Fields[r.fld]
        field_tpe == field.tpe
    IN  IF ~is_assignable_to(val.r.tpe, field_tpe)
        THEN Ret(Err([kind |-> "FieldAssignWrongType", field_tpe |-> field_tpe,
                      fld |-> r.fld, val |-> val.r.tpe]), val.ts)
        ELSE IF pointed_to(addr.r.tpe) = {}
        THEN Ret(Err([kind |-> "TypeNotPtr", tpe |-> addr.r.tpe]), val.ts) ELSE
        LET pointed_tpe == val.ts[addr.r.tpe.inner] IN
        IF pointed_tpe.k # "ClassRef"
        THEN Ret(Err([kind |-> "FieldAccessInvalidType", tpe |-> pointed_tpe,
                      field |-> field]), val.ts)
        ELSE IF pointed_tpe.cref # field.owner
        THEN Ret(Err([kind |-> "FieldOwnerMismatch", owner |-> pointed_tpe.cref,
                      expected_owner |-> field.owner, field |-> field]), val.ts)
        ELSE IF ~FieldInDef(field)
        THEN Ret(FieldNotPresent(field), val.ts)
        ELSE Ret(OkUnit, val.ts)

SetField_addr(r, addr) ==
    IF addr.r.k # "Ok" THEN addr
    ELSE SetField_val(r, addr, CILNode_typecheck(nodes[r.val], addr.ts))

Root_SetField(r, ts) == SetField_addr(r, CILNode_typecheck(nodes[r.addr], ts))

\* The loop over args.iter().zip(call_sig.inputs().iter()).enumerate().
RECURSIVE Root_CallArgs(_, _, _, _, _)
RECURSIVE Root_CallArg(_, _, _, _, _)

Root_CallArgs(args, inputs, index, mname, ts) ==
    IF index >= Len(args) \/ index >= Len(inputs) THEN Ret(OkUnit, ts)
    ELSE Root_CallArg(args, inputs, index, mname,
                      CILNode_typecheck(nodes[args[index + 1]], ts))

\* One turn of the loop, after the argument was checked.
Root_CallArg(args, inputs, index, mname, arg) ==
    IF arg.r.k # "Ok" THEN arg ELSE
    IF ~is_assignable_to(arg.r.tpe, inputs[index + 1])
    THEN Ret(Err([kind |-> "CallArgTypeWrong",
                  got |-> mangle(arg.r.tpe, arg.ts),
                  expected |-> mangle(inputs[index + 1], arg.ts),
                  idx |-> index, mname |-> mname]), arg.ts)
    ELSE Root_CallArgs(args, inputs, index + 1, mname, arg.ts)

\* Root_Call without the argument-count comparison.
Root_Call_NoArgc(r, ts) ==
    Root_CallArgs(r.args, Sigs[MethodRefs[r.mref].sig].inputs, 0,
                  MethodRefs[r.mref].name, ts)

Root_Call(r, ts) ==
    LET mref == MethodRefs[r.mref]
        call_sig == Sigs[mref.sig]
    IN  IF mref.kind = "Static" /\ Len(call_sig.inputs) # Len(r.args)
        THEN Ret(Err([kind |-> "CallArgcWrong", expected |-> Len(call_sig.inputs),
                      got |-> Len(r.args), mname |-> mref.name]), ts)
        ELSE Root_CallArgs(r.args, call_sig.inputs, 0, mref.name, ts)

\* CILRoot::nodes: the operand nodes of a root, in order.
Root_nodes(r) ==
    CASE r.op = "StLoc" -> << r.node >>
      [] r.op = "Branch" ->
            IF r.cond.c = "None" THEN << >>
            ELSE IF r.cond.c \in {"True", "False"} THEN << r.cond.node >>
            ELSE << r.cond.lhs, r.cond.rhs >>
      [] r.op = "StInd" -> << r.addr, r.value >>
      [] r.op = "SetField" -> << r.addr, r.val >>
      [] r.op = "Call" -> r.args
      [] r.op \in {"Ret", "Pop", "Throw"} -> << r.node >>
      [] r.op = "CpBlk" -> << r.dst, r.src, r.len >>
      [] OTHER -> << >>

\* The `_ =>` arm: every node of self.nodes() in turn.
RECURSIVE Root_Other(_, _, _)
RECURSIVE Root_OtherNode(_, _, _)

Root_Other(ns, i, ts) ==
    IF i > Len(ns) THEN Ret(OkUnit, ts)
    ELSE Root_OtherNode(ns, i, CILNode_typecheck(nodes[ns[i]], ts))

Root_OtherNode(ns, i, node) ==
    IF node.r.k # "Ok" THEN node ELSE Root_Other(ns, i + 1, node.ts)

CILRoot_typecheck(r, ts) ==
    CASE r.op = "StLoc" -> Root_StLoc(r, ts)
      [] r.op = "Branch" -> Root_Branch(r, ts)
      [] r.op = "StInd" -> Root_StInd(r, ts)
      [] r.op = "SetField" -> Root_SetField(r, ts)
      [] r.op = "Call" -> Root_Call(r, ts)
      [] OTHER -> Root_Other(Root_nodes(r), 1, ts)

(***************************************************************************)
(* The diagnostic renderer: typecheck_err_to_string and display_node.      *)
(***************************************************************************)
\* CILNode::child_nodes: the operand nodes of a node, in order.
child_nodes(n) ==
    CASE n.op = "BinOp" -> << n.lhs, n.rhs >>
      [] n.op = "UnOp" -> << n.arg >>
      [] n.op = "Call" -> n.args
      [] n.op = "CallI" -> << n.fn_ptr >> \o n.args
      [] n.op \in {"IntCast", "FloatCast"} -> << n.input >>
      [] n.op \in {"RefToPtr", "PtrCast"} -> << n.arg >>
      [] n.op \in {"LdFieldAddress", "LdField", "LdInd"} -> << n.addr >>
      [] n.op \in {"IsInst", "CheckedCast"} -> << n.obj >>
      [] n.op = "LocAlloc" -> << n.size >>
      [] n.op = "LdLen" -> << n.arr >>
      [] n.op = "LdElelemRef" -> << n.array, n.index >>
      [] n.op = "UnboxAny" -> << n.object >>
      [] OTHER -> << >>

\* display_node returns the text it emits (node definitions and edge lists,
\* in order), the type arena, the visited set, and whether a typecheck it
\* ran panicked.
RECURSIVE display_node(_, _, _)
RECURSIVE display_nodes(_, _, _, _)
RECURSIVE display_typed(_, _, _)
RECURSIVE display_rest(_, _, _)

display_node(nodeidx, ts, set) ==
    display_typed(nodeidx, set \cup {nodeidx}, CILNode_typecheck(nodes[nodeidx], ts))

\* display_node after `let tpe = node.typecheck(sig, locals, asm)`.
display_typed(nodeidx, set1, tpe) ==
    IF tpe.r.k = "Panic"
    THEN [out |-> << >>, ts |-> tpe.ts, set |-> set1, panic |-> TRUE]
    ELSE
    LET node_def == [item |-> "node", n |-> nodeidx,
                     color |-> IF tpe.r.k = "Ok" THEN "green" ELSE "red"]
        node_children == child_nodes(nodes[nodeidx])
    IN  IF node_children = << >>
        THEN [out |-> << node_def >>, ts |-> tpe.ts, set |-> set1,
              panic |-> FALSE]
        ELSE LET rest == display_nodes(node_children, 1, tpe.ts, set1) IN
             [out |-> << node_def,
                         [item |-> "edges", n |-> nodeidx,
                          to |-> node_children] >> \o rest.out,
              ts |-> rest.ts, set |-> rest.set, panic |-> rest.panic]

\* display_node over ns[i], ns[i+1], ... in turn.
display_nodes(ns, i, ts, set) ==
    IF i > Len(ns) THEN [out |-> << >>, ts |-> ts, set |-> set, panic |-> FALSE]
    ELSE display_rest(ns, i, display_node(ns[i], ts, set))

display_rest(ns, i, head) ==
    IF head.panic THEN head
    ELSE LET tail == display_nodes(ns, i + 1, head.ts, head.set) IN
         [out |-> head.out \o tail.out, ts |-> tail.ts, set |-> tail.set,
          panic |-> tail.panic]

\* The graph, after the nodes were displayed and the root was checked.
render_root(root_idx, shown, res) ==
    IF res.r.k = "Panic" THEN [g |-> Panic, ts |-> res.ts]
    ELSE [g |-> [k |-> "Graph", nodes |-> shown.out,
                 root |-> root_idx,
                 root_color |-> IF res.r.k = "Ok" THEN "green" ELSE "red",
                 root_connections |-> Root_nodes(roots[root_idx])],
          ts |-> res.ts]

render_nodes(root_idx, shown) ==
    IF shown.panic THEN [g |-> Panic, ts |-> shown.ts]
    ELSE render_root(root_idx, shown, CILRoot_typecheck(roots[root_idx], shown.ts))

typecheck_err_to_string(root_idx, ts) ==
    render_nodes(root_idx, display_nodes(Root_nodes(roots[root_idx]), 1, ts, {}))

(***************************************************************************)
(* The frontend: the nodes and roots it may intern over the handles H of   *)
(* the nodes already in the store.  A unit draws on one part of the IR:    *)
(* calls, field accesses, memory and pointer casts, arithmetic and         *)
(* branches, unary operations and numeric casts, sizes and stack           *)
(* allocation, object and array operations, or statics and block copies.   *)
(***************************************************************************)
Units == {"call", "field", "mem", "arith", "cast", "size", "object", "static"}

\* The argument lists of at most k handles of H.
ArgLists(H, k) == UNION { [1..j -> H] : j \in 0..k }

\* Zero-based slots; Len(locals) is the first slot past the end.
LocChoices(u) ==
    CASE u = "call" -> {0, 6, Len(locals)}
      [] u = "field" -> {1, 2, 4, 6}
      [] u = "mem" -> {0, 4, 5}
      [] u = "arith" -> {1, 2, 3, 6, 7}
      [] u = "cast" -> {0, 6}
      [] u = "object" -> {2}
      [] OTHER -> {}

LocAChoices(u) ==
    CASE u = "field" -> {1, 2}
      [] u = "mem" -> {2}
      [] u = "arith" -> {1}
      [] u = "call" -> {1}
      [] u = "static" -> {Len(locals)}
      [] OTHER -> {}

SizeOfChoices(u) ==
    CASE u = "size" -> DOMAIN InitTypes
      [] u \in {"call", "arith", "object", "static"} -> {hVoid}
      [] OTHER -> {}

LeafChoices(u) ==
    { [op |-> "LdLoc", loc |-> i] : i \in LocChoices(u) }
    \cup { [op |-> "LdLocA", loc |-> i] : i \in LocAChoices(u) }
    \cup { [op |-> "SizeOf", tpe |-> h] : h \in SizeOfChoices(u) }
    \cup (CASE u = "call" -> { [op |-> "LdFtn", mref |-> 2] }
            [] u = "arith" ->
                { [op |-> "Const", cst |-> "I32"],
                  [op |-> "Call", mref |-> 3, args |-> << >>, is_pure |-> FALSE] }
            [] u = "mem" ->
                { [op |-> "Const", cst |-> "Bool"] }
            [] u = "cast" ->
                { [op |-> "Const", cst |-> "F32"] }
                \cup { [op |-> "LdArg", arg |-> i] : i \in {1, Len(Sigs[sig].inputs)} }
            [] u = "object" ->
                { [op |-> "GetException"], [op |-> "LdTypeToken"] }
            [] u = "static" ->
                { [op |-> "LdStaticField", sfld |-> 1],
                  [op |-> "LdStaticFieldAddress", sfld |-> 1],
                  [op |-> "LocAllocAlgined", tpe |-> hU8, align |-> 8] }
                \cup { [op |-> "LdArgA", arg |-> i] : i \in {0, Len(Sigs[sig].inputs)} }
            [] OTHER -> {})

PtrCastResChoices == { Ptr(hU8), Ptr(hBool), ClassRef(cG), IntT("USize") }
LdIndTypeChoices == { hVoid, hU8, hClassG }
StoreBinOps == {"Add", "Eq", "Lt"}
CallISigs == {sNone, sOne}
\* The callees of call nodes and of call statements: f1, f3 and p1 (static);
\* f3 (static), m0 (instance) and v1 (virtual).
NodeCallees == {2, 3, 7}
RootCallees == {3, 4, 5}

CompositeChoices(u, H) ==
    CASE u = "call" ->
            { [op |-> "Call", mref |-> m, args |-> as, is_pure |-> FALSE] :
                    m \in NodeCallees, as \in ArgLists(H, MaxArgs) }
            \cup { [op |-> "CallI", fn_ptr |-> f, sig |-> c, args |-> as] :
                    f \in H, c \in CallISigs, as \in ArgLists(H, 1) }
      [] u = "field" ->
            { [op |-> "LdFieldAddress", addr |-> a, field |-> f] :
                    a \in H, f \in DOMAIN Fields }
            \cup { [op |-> "LdField", addr |-> a, field |-> f] :
                    a \in H, f \in DOMAIN Fields }
            \cup { [op |-> "RefToPtr", arg |-> a] : a \in H }
      [] u = "mem" ->
            { [op |-> "PtrCast", arg |-> a, res |-> t] : a \in H, t \in PtrCastResChoices }
            \cup { [op |-> "LdInd", addr |-> a, tpe |-> t, volatile |-> FALSE] :
                    a \in H, t \in LdIndTypeChoices }
            \cup { [op |-> "RefToPtr", arg |-> a] : a \in H }
      [] u = "arith" ->
            { [op |-> "BinOp", lhs |-> a, rhs |-> b, bop |-> o] :
                    a \in H, b \in H, o \in StoreBinOps }
      [] u = "cast" ->
            { [op |-> "UnOp", arg |-> a, uop |-> o] : a \in H, o \in {"Not", "Neg"} }
            \cup { [op |-> "IntCast", input |-> a, target |-> "I32", extend |-> "Zero"] :
                    a \in H }
            \cup { [op |-> "FloatCast", input |-> a, target |-> "F32", is_signed |-> TRUE] :
                    a \in H }
      [] u = "size" ->
            { [op |-> "LocAlloc", size |-> a] : a \in H }
      [] u = "object" ->
            { [op |-> "IsInst", obj |-> a, tpe |-> hClassG] : a \in H }
            \cup { [op |-> "CheckedCast", obj |-> a, res |-> t] :
                    a \in H, t \in {hClassG, hArr, hArr2} }
            \cup { [op |-> "LdLen", arr |-> a] : a \in H }
            \cup { [op |-> "UnboxAny", object |-> a, tpe |-> hI32] : a \in H }
            \cup { [op |-> "LdElelemRef", array |-> a, index |-> b] : a \in H, b \in H }
      [] u = "static" -> {}

NodeChoices(u, H) == LeafChoices(u) \cup CompositeChoices(u, H)

BranchConds(H) ==
    { [c |-> "None"] }
    \cup { [c |-> b, node |-> a] : b \in {"True", "False"}, a \in H }
    \cup { [c |-> b, lhs |-> x, rhs |-> y] : b \in {"Eq", "Lt"}, x \in H, y \in H }

StIndTypeChoices == { IntT("I32"), IntT("U8"), IntT("I8"), Void }

RootChoices(u, H) ==
    CASE u = "call" ->
            { [op |-> "Call", mref |-> m, args |-> as, is_pure |-> FALSE] :
                    m \in RootCallees, as \in ArgLists(H, MaxArgs) }
            \cup { [op |-> "Pop", node |-> a] : a \in H }
      [] u = "field" ->
            { [op |-> "SetField", fld |-> f, addr |-> a, val |-> v] :
                    f \in DOMAIN Fields, a \in H, v \in H }
            \cup { [op |-> "StLoc", loc |-> i, node |-> a] : i \in {1, 6}, a \in H }
      [] u = "mem" ->
            { [op |-> "StInd", addr |-> a, value |-> v, tpe |-> t, volatile |-> FALSE] :
                    a \in H, v \in H, t \in StIndTypeChoices }
            \cup { [op |-> "StLoc", loc |-> i, node |-> a] :
                    i \in {0, Len(locals)}, a \in H }
      [] u = "arith" ->
            { [op |-> "Branch", target |-> 0, sub_target |-> 0, cond |-> c] :
                    c \in BranchConds(H) }
            \cup { [op |-> "StLoc", loc |-> i, node |-> a] : i \in {6, 7}, a \in H }
      [] u = "cast" ->
            { [op |-> "Ret", node |-> a] : a \in H }
      [] u = "size" ->
            { [op |-> "Pop", node |-> a] : a \in H }
      [] u = "object" ->
            { [op |-> o, node |-> a] : o \in {"Throw", "Pop"}, a \in H }
      [] u = "static" ->
            { [op |-> "CpBlk", dst |-> a, src |-> b, len |-> c] :
                    a \in H, b \in H, c \in H }
            \cup { [op |-> "VoidRet"] }

(***************************************************************************)
(* The state machine.                                                      *)
(***************************************************************************)
CoercionFamilies == SUBSET CoercionNames

Init ==
    /\ types = InitTypes
    /\ nodes = << >>
    /\ roots = << >>
    /\ coerce \in CoercionFamilies
    /\ unit \in Units
    /\ last = [call |-> "none"]

InStore(seq, x) == \E i \in 1..Len(seq) : seq[i] = x

\* Assembly::alloc_node: interning a node that is new to the store.
AllocNode ==
    /\ Len(nodes) + Len(roots) < MaxEntities
    /\ \E n \in NodeChoices(unit, 1..Len(nodes)) :
        /\ ~InStore(nodes, n)
        /\ nodes' = Append(nodes, n)
    /\ UNCHANGED <<types, roots, coerce, unit, last>>

\* Assembly::alloc_root: interning a root that is new to the store.
AllocRoot ==
    /\ Len(nodes) + Len(roots) < MaxEntities
    /\ \E r \in RootChoices(unit, 1..Len(nodes)) :
        /\ ~InStore(roots, r)
        /\ roots' = Append(roots, r)
    /\ UNCHANGED <<types, nodes, coerce, unit, last>>

\* typecheck_node(node_handle, sig, locals, store).
TypecheckNode ==
    /\ \E h \in 1..Len(nodes) :
        LET res == CILNode_typecheck(nodes[h], types) IN
        /\ last' = [call |-> "node", idx |-> h, out |-> res.r]
        /\ types' = res.ts
    /\ UNCHANGED <<nodes, roots, coerce, unit>>

\* typecheck_root(root_handle, sig, locals, store).
TypecheckRoot ==
    /\ \E i \in 1..Len(roots) :
        LET res == CILRoot_typecheck(roots[i], types) IN
        /\ last' = [call |-> "root", idx |-> i, out |-> res.r]
        /\ types' = res.ts
    /\ UNCHANGED <<nodes, roots, coerce, unit>>

\* typecheck_err_to_string(root_idx, asm, sig, locals).
TypecheckErrToString ==
    /\ \E i \in 1..Len(roots) :
        LET res == typecheck_err_to_string(i, types) IN
        /\ last' = [call |-> "render", idx |-> i, out |-> res.g]
        /\ types' = res.ts
    /\ UNCHANGED <<nodes, roots, coerce, unit>>

Next ==
    \/ AllocNode
    \/ AllocRoot
    \/ TypecheckNode
    \/ TypecheckRoot
    \/ TypecheckErrToString

Spec == Init /\ [][Next]_vars

(***************************************************************************)
(* BinOp::typecheck on its own: an operator and two operand types drawn    *)
(* from the types the arena can describe, applied directly, or reached     *)
(* through CILNode::typecheck from a BinOp node over two constants.        *)
(***************************************************************************)
\* The types of constants (Const::get_type) among the operand types.
ConstTypes == { IntT(i) : i \in Ints } \cup { FloatT(f) : f \in Floats } \cup { Bool }

OperandTypes ==
    ConstTypes
    \cup { Void, PlatformString }
    \cup { Ptr(h) : h \in DOMAIN InitTypes }
    \cup { Ref(h) : h \in {hVoid, hU8} }
    \cup { FnPtr(s) : s \in {sNone, sOne} }
    \cup { ClassRef(c) : c \in {cV, cG} }

InitBinOp ==
    /\ types = InitTypes
    /\ nodes = << >>
    /\ roots = << >>
    /\ coerce \in CoercionFamilies
    /\ unit = "arith"
    /\ last \in { [call |-> "input", op |-> o, lhs |-> l, rhs |-> r] :
                    o \in BinOps, l \in OperandTypes, r \in OperandTypes }

\* BinOp::typecheck(op, lhs, rhs, asm).
ApplyBinOp ==
    /\ last.call = "input"
    /\ last' = [call |-> "binop", op |-> last.op, lhs |-> last.lhs, rhs |-> last.rhs,
                out |-> BinOp_typecheck(last.op, last.lhs, last.rhs)]
    /\ UNCHANGED <<types, nodes, roots, coerce, unit>>

\* Assembly::alloc_node, three times: the two constants, then the BinOp node
\* over them.
AllocConstBinOp ==
    /\ last.call = "input"
    /\ nodes = << >>
    /\ last.lhs \in ConstTypes
    /\ last.rhs \in ConstTypes
    /\ nodes' = << [op |-> "Const",
                    cst |-> CHOOSE c \in Ints \cup Floats \cup {"Bool"} :
                                get_type(c) = last.lhs],
                   [op |-> "Const",
                    cst |-> CHOOSE c \in Ints \cup Floats \cup {"Bool"} :
                                get_type(c) = last.rhs],
                   [op |-> "BinOp", lhs |-> 1, rhs |-> 2, bop |-> last.op] >>
    /\ UNCHANGED <<types, roots, coerce, unit, last>>

NextBinOp ==
    \/ ApplyBinOp
    \/ AllocConstBinOp
    \/ TypecheckNode

SpecBinOp == InitBinOp /\ [][NextBinOp]_vars

(***************************************************************************)
(* Properties.                                                             *)
(***************************************************************************)
\* The outcome of checking node h, or root i, against the store as it is.
NodeRes(h) == CILNode_typecheck(nodes[h], types).r
RootRes(i) == CILRoot_typecheck(roots[i], types).r

\* The outcomes of checking the nodes ns[i], ns[i+1], ... one after the
\* other, each against the arena the one before left, up to and including
\* the first that is not a success.
RECURSIVE EvalInOrder(_, _, _)
EvalInOrder(ns, i, ts) ==
    IF i > Len(ns) THEN << >>
    ELSE LET c == CILNode_typecheck(nodes[ns[i]], ts) IN
         IF c.r.k # "Ok" THEN << c.r >>
         ELSE << c.r >> \o EvalInOrder(ns, i + 1, c.ts)

NotFnPtrU8 == Err([kind |-> "IndirectCallInvalidFnPtrType", fn_ptr |-> Ptr(hU8)])

\* The indirect calls whose function-pointer operand has type Ptr(U8).
CallIOnPtrU8 ==
    { h \in 1..Len(nodes) :
        /\ nodes[h].op = "CallI"
        /\ NodeRes(nodes[h].fn_ptr) = Ok(Ptr(hU8)) }

\* The arguments of indirect call n are as many as the supplied signature's
\* parameters, each typechecks, and each is assignable to its parameter.
CallIArgsFit(n) ==
    LET inputs == Sigs[n.sig].inputs
        got == EvalInOrder(<< n.fn_ptr >> \o n.args, 1, types)
    IN  /\ Len(n.args) = Len(inputs)
        /\ Len(got) = Len(n.args) + 1
        /\ \A i \in 1..Len(n.args) :
                got[i + 1].k = "Ok" /\ is_assignable_to(got[i + 1].tpe, inputs[i])

\* C1, as stated: an indirect call whose function-pointer operand has type
\* Ptr(U8) fails with IndirectCallInvalidFnPtrType for every signature and
\* every argument list.
C1_Original ==
    \A h \in CallIOnPtrU8 : NodeRes(h) = NotFnPtrU8

\* C1, amended: an indirect call whose function-pointer operand has type
\* Ptr(U8) never succeeds.  It fails with IndirectCallInvalidFnPtrType when
\* the argument count equals the signature's parameter count and every
\* argument typechecks to a type assignable to its parameter; otherwise the
\* argument-count error, the first failing argument's own failure, or the
\* argument-type error is reported instead.
C1_NotFnPtrAfterArgs ==
    \A h \in CallIOnPtrU8 :
        LET n == nodes[h]
            inputs == Sigs[n.sig].inputs
            got == EvalInOrder(<< n.fn_ptr >> \o n.args, 1, types)
            bad == { i \in 1..(Len(got) - 1) :
                        \/ got[i + 1].k # "Ok"
                        \/ ~is_assignable_to(got[i + 1].tpe, inputs[i]) }
            first == CHOOSE i \in bad : \A j \in bad : i <= j
            stop == got[first + 1]
        IN  /\ NodeRes(h).k # "Ok"
            /\ CallIArgsFit(n) => NodeRes(h) = NotFnPtrU8
            /\ Len(n.args) # Len(inputs) =>
                   NodeRes(h) = Err([kind |-> "IndirectCallArgcWrong",
                                     expected |-> Len(inputs), got |-> Len(n.args)])
            /\ Len(n.args) = Len(inputs) /\ ~CallIArgsFit(n) =>
                   IF stop.k # "Ok" THEN NodeRes(h) = stop
                   ELSE NodeRes(h) = Err([kind |-> "IndirectCallArgTypeWrong",
                                          got |-> stop.tpe,
                                          expected |-> inputs[first],
                                          idx |-> first - 1])

C1_Witness ==
    /\ last.call = "node"
    /\ last.idx \in CallIOnPtrU8
    /\ nodes[last.idx].args # << >>
    /\ last.out = NotFnPtrU8

\* C2: the checker never panics: checking any node or any statement of the
\* store returns a result type, success, or a TypeCheckError value.
C2_NeverPanics ==
    /\ \A h \in 1..Len(nodes) : NodeRes(h).k \in {"Ok", "Err"}
    /\ \A i \in 1..Len(roots) : RootRes(i).k \in {"Ok", "Err"}

\* The colours of the node definitions of a rendered graph.
GraphColors(g) ==
    { g.nodes[j].color : j \in { j \in 1..Len(g.nodes) : g.nodes[j].item = "node" } }

\* C3: when checking a statement succeeds, the diagnostic graph rendered
\* for that statement is produced, its root is green, and it holds no red
\* node.
C3_NoRedAfterSuccess ==
    \A i \in 1..Len(roots) :
        RootRes(i).k = "Ok" =>
            LET g == typecheck_err_to_string(i, types).g IN
            /\ g.k = "Graph"
            /\ g.root_color = "green"
            /\ "red" \notin GraphColors(g)

\* The type a node checks to, as a set: empty when the check fails.
TypeOf(h) == IF NodeRes(h).k = "Ok" THEN { NodeRes(h).tpe } ELSE {}

Comparisons == {"Eq", "Lt", "Gt", "LtUn", "GtUn"}

\* The operations on Void that C4 names: a size-of of Void, a load through
\* a pointer to Void, a comparison of two Void operands.
VoidUses ==
    { h \in 1..Len(nodes) :
        LET n == nodes[h] IN
        \/ n.op = "SizeOf" /\ types[n.tpe] = Void
        \/ /\ n.op = "LdInd"
           /\ \E t \in TypeOf(n.addr) : \E p \in pointed_to(t) : types[p] = Void
        \/ /\ n.op = "BinOp"
           /\ n.bop \in Comparisons
           /\ TypeOf(n.lhs) = {Void}
           /\ TypeOf(n.rhs) = {Void} }

\* The store-locals of a value of type Void.
VoidStores ==
    { i \in 1..Len(roots) :
        roots[i].op = "StLoc" /\ TypeOf(roots[i].node) = {Void} }

\* C4: Void is never sized, loaded, compared or stored into a local: each
\* such node and each such store-local is rejected with an error.
C4_VoidRejected ==
    /\ \A h \in VoidUses : NodeRes(h).k = "Err"
    /\ \A i \in VoidStores : RootRes(i).k = "Err"

\* The outcomes of the operands ns, checked left to right from the present
\* arena, up to and including the first failure.
Operands(ns) == EvalInOrder(ns, 1, types)

\* The errors a call raises about itself or about one argument.
ArgcErrors == {"CallArgcWrong", "IndirectCallArgcWrong"}
ArgTypeErrors == {"CallArgTypeWrong", "IndirectCallArgTypeWrong"}

\* res is the outcome of an operation whose operands, in order, are ns, the
\* first argument of a call being operand number first_arg.  When the check
\* fails and operand number k is the first whose own check fails, the
\* outcome is that operand's failure, or an argument-count error (raised
\* before any operand is checked), or an argument-type error about an
\* operand before number k.
FailFast(res, ns, first_arg) ==
    LET got == Operands(ns)
        k == Len(got)
    IN  (res.k # "Ok" /\ k > 0 /\ got[k].k # "Ok") =>
            \/ res = got[k]
            \/ res.k = "Err" /\ res.err.kind \in ArgcErrors
            \/ /\ res.k = "Err"
               /\ res.err.kind \in ArgTypeErrors
               /\ res.err.idx + first_arg < k

\* C5: checking is fail-fast in left-to-right operand order: a failed check
\* of a node or of a statement returns the failure of the first operand
\* whose own check fails, never one arising from a later operand or from a
\* rule relating it to a later operand.
C5_FailFast ==
    /\ \A h \in 1..Len(nodes) :
            FailFast(NodeRes(h), child_nodes(nodes[h]),
                     IF nodes[h].op = "CallI" THEN 2 ELSE 1)
    /\ \A i \in 1..Len(roots) :
            FailFast(RootRes(i), Root_nodes(roots[i]), 1)

\* A binary operation whose operands fail differently was checked and
\* returned the left operand's failure.
C5_Witness ==
    /\ last.call = "node"
    /\ nodes[last.idx].op = "BinOp"
    /\ NodeRes(nodes[last.idx].lhs).k # "Ok"
    /\ NodeRes(nodes[last.idx].rhs).k # "Ok"
    /\ NodeRes(nodes[last.idx].lhs) # NodeRes(nodes[last.idx].rhs)
    /\ last.out = NodeRes(nodes[last.idx].lhs)

\* The Eq nodes whose two operands both check to ClassRef of class c.
EqOnClass(c) ==
    { h \in 1..Len(nodes) :
        /\ nodes[h].op = "BinOp"
        /\ nodes[h].bop = "Eq"
        /\ Operands(<< nodes[h].lhs, nodes[h].rhs >>) = << Ok(ClassRef(c)), Ok(ClassRef(c)) >> }

\* C6: Eq on two operands of the same value-type class fails with
\* ValueTypeCompare and never yields Bool; Eq on two operands of the same
\* reference-type class yields Bool.
C6_ValueTypeCompare ==
    \A c \in DOMAIN ClassRefs : \A h \in EqOnClass(c) :
        IF is_valuetype(c)
        THEN NodeRes(h) = Err([kind |-> "ValueTypeCompare", lhs |-> ClassRef(c),
                               rhs |-> ClassRef(c)])
        ELSE NodeRes(h) = Ok(Bool)

C6_Witness ==
    /\ last.call = "node"
    /\ \E c \in DOMAIN ClassRefs : is_valuetype(c) /\ last.idx \in EqOnClass(c)
    /\ last.out.k = "Err"
    /\ last.out.err.kind = "ValueTypeCompare"

\* The argument-count error of a direct call c (a node or a statement).
ArgcWrong(c) ==
    Err([kind |-> "CallArgcWrong",
         expected |-> Len(Sigs[MethodRefs[c.mref].sig].inputs),
         got |-> Len(c.args),
         mname |-> MethodRefs[c.mref].name])

\* c is a direct call of a static method given a number of arguments other
\* than the number of its parameters.
StaticArgcOff(c) ==
    /\ c.op = "Call"
    /\ MethodRefs[c.mref].kind = "Static"
    /\ Len(c.args) # Len(Sigs[MethodRefs[c.mref].sig].inputs)

\* C7: a direct call of a static method with n parameters given m # n
\* arguments fails with CallArgcWrong{expected: n, got: m}, as a node and as
\* a statement, whatever its arguments are.
C7_StaticArgc ==
    /\ \A h \in 1..Len(nodes) : StaticArgcOff(nodes[h]) => NodeRes(h) = ArgcWrong(nodes[h])
    /\ \A i \in 1..Len(roots) : StaticArgcOff(roots[i]) => RootRes(i) = ArgcWrong(roots[i])

\* A call statement and a call node of the three-parameter static method,
\* each given two arguments one of which is ill-typed; the statement was
\* checked and reported expected 3, got 2.
C7_Witness ==
    /\ last.call = "root"
    /\ StaticArgcOff(roots[last.idx])
    /\ \E a \in 1..Len(roots[last.idx].args) :
            NodeRes(roots[last.idx].args[a]).k # "Ok"
    /\ last.out.k = "Err"
    /\ last.out.err.kind = "CallArgcWrong"
    /\ last.out.err.expected = 3
    /\ last.out.err.got = 2
    /\ \E h \in 1..Len(nodes) :
            /\ StaticArgcOff(nodes[h])
            /\ Len(nodes[h].args) = 2
            /\ NodeRes(h) = last.out

\* The LdField nodes whose base resolves to ClassRef(A) through a base of
\* kind bk (Ptr, Ref or ClassRef itself) while the field's owner is not A.
ForeignFieldLoads(bk) ==
    { h \in 1..Len(nodes) :
        /\ nodes[h].op = "LdField"
        /\ LET addr == CILNode_typecheck(nodes[nodes[h].addr], types) IN
           /\ addr.r.k = "Ok"
           /\ addr.r.tpe.k = bk
           /\ \E t \in FieldBase(addr.r.tpe, addr.ts) :
                t.k = "ClassRef" /\ t.cref # Fields[nodes[h].field].owner }

\* The class a field load's base resolves to.
BaseOwner(h) ==
    LET addr == CILNode_typecheck(nodes[nodes[h].addr], types) IN
    (CHOOSE t \in FieldBase(addr.r.tpe, addr.ts) : TRUE).cref

\* C8: loading a field through a base that resolves to ClassRef(A) when the
\* field's declared owner is B # A fails with FieldOwnerMismatch{owner: A,
\* expected_owner: B}, for Ptr, Ref and direct ClassRef bases, whether or
\* not B's definition is known or lists the field.
C8_FieldOwnerMismatch ==
    \A bk \in {"Ptr", "Ref", "ClassRef"} : \A h \in ForeignFieldLoads(bk) :
        NodeRes(h) = Err([kind |-> "FieldOwnerMismatch",
                          owner |-> BaseOwner(h),
                          expected_owner |-> Fields[nodes[h].field].owner,
                          field |-> Fields[nodes[h].field]])

\* A load, through a Ref base, of a field that its owner's definition does
\* not list was checked and reported the owner mismatch.
C8_Witness ==
    /\ last.call = "node"
    /\ last.idx \in ForeignFieldLoads("Ref")
    /\ ~FieldInDef(Fields[nodes[last.idx].field])
    /\ last.out.k = "Err"
    /\ last.out.err.kind = "FieldOwnerMismatch"

SizeOfNodes == { h \in 1..Len(nodes) : nodes[h].op = "SizeOf" }

\* C9: SizeOf(T) fails with SizeOfVoid if and only if T is Void, and for
\* every other T returns Int(I32).
C9_SizeOf ==
    \A h \in SizeOfNodes :
        /\ NodeRes(h) = Err([kind |-> "SizeOfVoid"]) <=> types[nodes[h].tpe] = Void
        /\ types[nodes[h].tpe] # Void => NodeRes(h) = Ok(IntT("I32"))

\* The store holds SizeOf(Void) and the size of a class type was checked and
\* came back as I32.
C9_Witness ==
    /\ last.call = "node"
    /\ last.idx \in SizeOfNodes
    /\ types[nodes[last.idx].tpe].k = "ClassRef"
    /\ last.out = Ok(IntT("I32"))
    /\ \E h \in SizeOfNodes :
            types[nodes[h].tpe] = Void /\ NodeRes(h).k = "Err"

PtrCastNodes == { h \in 1..Len(nodes) : nodes[h].op = "PtrCast" }

\* The pointer casts whose input checks to Ptr(P) or Ref(P), P a managed
\* reference type.
ManagedPtrCasts ==
    { h \in PtrCastNodes :
        LET arg == CILNode_typecheck(nodes[nodes[h].arg], types) IN
        /\ arg.r.k = "Ok"
        /\ arg.r.tpe.k \in {"Ptr", "Ref"}
        /\ is_gcref(arg.ts[arg.r.tpe.inner]) }

\* C10: a pointer cast whose input is a pointer or reference to a managed
\* reference type fails with ManagedPtrCast for every declared result type,
\* and no pointer cast succeeds with a declared result type that is itself a
\* managed reference type.
C10_ManagedPtrCast ==
    /\ \A h \in ManagedPtrCasts :
            /\ NodeRes(h).k = "Err"
            /\ NodeRes(h).err.kind = "ManagedPtrCast"
    /\ \A h \in PtrCastNodes : NodeRes(h).k = "Ok" => ~is_gcref(nodes[h].res)

\* A cast of a Ref to a managed class into a raw pointer to U8 was checked
\* and rejected as a managed pointer cast.
C10_Witness ==
    /\ last.call = "node"
    /\ last.idx \in ManagedPtrCasts
    /\ NodeRes(nodes[last.idx].arg).tpe.k = "Ref"
    /\ nodes[last.idx].res = Ptr(hU8)
    /\ last.out.k = "Err"
    /\ last.out.err.kind = "ManagedPtrCast"

(***************************************************************************)
(* C11: for every pointee type T, Void included, Add(Ptr(T), USize) and    *)
(* Add(USize, Ptr(T)) typecheck with result Ptr(T), and so do both with    *)
(* ISize in place of USize.                                                *)
(***************************************************************************)
\* The call BinOp::typecheck just answered was op on (lhs, rhs).
Applied(op, lhs, rhs) ==
    /\ last.call = "binop"
    /\ last.op = op
    /\ last.lhs = lhs
    /\ last.rhs = rhs

C11_PtrAddSize ==
    \A h \in DOMAIN types, s \in SizeInts :
        /\ Applied("Add", Ptr(h), IntT(s)) => last.out = Ok(Ptr(h))
        /\ Applied("Add", IntT(s), Ptr(h)) => last.out = Ok(Ptr(h))

C11_Witness ==
    /\ Applied("Add", Ptr(hVoid), IntT("ISize"))
    /\ last.out = Ok(Ptr(hVoid))
    /\ types[hVoid] = Void

(***************************************************************************)
(* C12: for every integer type I, the 128-bit and the pointer-sized ones   *)
(* included, signed or unsigned, the node Add over two constants of type   *)
(* I typechecks with result Int(I).                                        *)
(***************************************************************************)
\* The stored BinOp nodes that apply op to two constants of integer type i.
ConstBinOps(op, i) ==
    { h \in 1..Len(nodes) :
        /\ nodes[h].op = "BinOp"
        /\ nodes[h].bop = op
        /\ nodes[nodes[h].lhs] = [op |-> "Const", cst |-> i]
        /\ nodes[nodes[h].rhs] = [op |-> "Const", cst |-> i] }

C12_ConstAdd ==
    \A i \in Ints : \A h \in ConstBinOps("Add", i) :
        /\ NodeRes(h) = Ok(IntT(i))
        /\ (last.call = "node" /\ last.idx = h) => last.out = Ok(IntT(i))

C12_Witness ==
    \E h \in ConstBinOps("Add", "U8") :
        /\ last.call = "node"
        /\ last.idx = h
        /\ last.out = Ok(IntT("U8"))

(***************************************************************************)
(* C13: checking a node or a statement only appends to the store: every    *)
(* type keeps its handle and its content, whether the check succeeds or    *)
(* fails, and what is added is a type the store did not hold.              *)
(***************************************************************************)
\* ts extends the arena: every handle of the arena names the same type in ts.
Extends(ts) ==
    /\ Len(ts) >= Len(types)
    /\ \A h \in 1..Len(types) : ts[h] = types[h]

\* Every entry ts has beyond the arena is a type no earlier entry is.
Fresh(ts) ==
    \A h \in (Len(types) + 1)..Len(ts) : \A g \in 1..(h - 1) : ts[g] # ts[h]

Repeats(a, b) ==
    /\ b.r = a.r
    /\ b.ts = a.ts

C14_Idempotent ==
    /\ \A h \in 1..Len(nodes) :
            Repeats(CILNode_typecheck(nodes[h], types),
                    CILNode_typecheck(nodes[h], CILNode_typecheck(nodes[h], types).ts))
    /\ \A i \in 1..Len(roots) :
            Repeats(CILRoot_typecheck(roots[i], types),
                    CILRoot_typecheck(roots[i], CILRoot_typecheck(roots[i], types).ts))
    /\ (last.call = "node" /\ last.out.k # "Panic") =>
            Repeats(Ret(last.out, types), CILNode_typecheck(nodes[last.idx], types))
    /\ (last.call = "root" /\ last.out.k # "Panic") =>
            Repeats(Ret(last.out, types), CILRoot_typecheck(roots[last.idx], types))

\* A node whose first check interned a type, checked once more.
C14_Witness ==
    /\ last.call = "node"
    /\ last.out.k = "Ok"
    /\ Len(types) > Len(InitTypes)
    /\ CILNode_typecheck(nodes[last.idx], InitTypes).ts = types
    /\ CILNode_typecheck(nodes[last.idx], types) = Ret(last.out, types)

(***************************************************************************)
(* C15: the diagnostic renderer emits each node reachable from the         *)
(* rendered statement exactly once: a node reached along several paths, or *)
(* listed twice among the statement's operands, gets a single node         *)
(* definition and a single list of child edges.                            *)
(***************************************************************************)
\* How many items of the given kind the rendered text holds for node n.
Emitted(g, kind, n) ==
    Cardinality({ j \in 1..Len(g.nodes) :
                    g.nodes[j].item = kind /\ g.nodes[j].n = n })

\* The nodes the rendered text mentions: defined, or the target of an edge.
Mentioned(g) ==
    { g.nodes[j].n : j \in 1..Len(g.nodes) }
    \cup UNION { { g.nodes[j].to[k] : k \in 1..Len(g.nodes[j].to) } :
                    j \in { j \in 1..Len(g.nodes) : g.nodes[j].item = "edges" } }
    \cup { g.root_connections[k] : k \in 1..Len(g.root_connections) }

C15_EmitOnce ==
    \A i \in 1..Len(roots) :
        typecheck_err_to_string(i, types).g.k = "Graph" =>
            \A n \in Mentioned(typecheck_err_to_string(i, types).g) :
                /\ Emitted(typecheck_err_to_string(i, types).g, "node", n) = 1
                /\ Emitted(typecheck_err_to_string(i, types).g, "edges", n) <= 1

(***************************************************************************)
(* C16: in a store whose node graph is acyclic, checking any statement     *)
(* terminates, returning success or an error, after finitely many          *)
(* recursive node checks: at most one check of a node per path that        *)
(* reaches it.                                                             *)
(***************************************************************************)
\* The store is acyclic: a node's operands were interned before the node.
Acyclic ==
    \A h \in 1..Len(nodes) :
        \A k \in 1..Len(child_nodes(nodes[h])) : child_nodes(nodes[h])[k] < h

\* The number of paths from node h down to any node it reaches, itself
\* included: the most node checks one check of h can make.
RECURSIVE Paths(_)
RECURSIVE PathsOf(_, _)
Paths(h) == 1 + PathsOf(child_nodes(nodes[h]), 1)
PathsOf(ns, k) == IF k > Len(ns) THEN 0 ELSE Paths(ns[k]) + PathsOf(ns, k + 1)

C16_Terminates ==
    Acyclic =>
        \A i \in 1..Len(roots) :
            /\ PathsOf(Root_nodes(roots[i]), 1) \in Nat
            /\ RootRes(i).k \in {"Ok", "Err"}

(***************************************************************************)
(* C17: the fallback of Add, Sub, Mul, Or, XOr, And, Rem, RemUn, Shl, Shr, *)
(* ShrUn, Div and DivUn, taken when none of the operator's own rules       *)
(* matches, is one and the same: it succeeds iff one operand's type is     *)
(* assignable to the other's and at least one operand is an integer type,  *)
(* returning that integer type, and fails with WrongBinopArgs otherwise.   *)
(* In particular Mul never accepts Bool x Bool or Ptr(T) x Ptr(T).         *)
(***************************************************************************)
FallbackOps == {"Add", "Sub", "Mul", "Or", "XOr", "And", "Rem", "RemUn",
                "Shl", "Shr", "ShrUn", "Div", "DivUn"}

SameInt(l, r) == l.k = "Int" /\ r.k = "Int" /\ l.int = r.int
SameFloat(l, r) == l.k = "Float" /\ r.k = "Float" /\ l.float = r.float
SizeInt(t) == t.k = "Int" /\ t.int \in SizeInts
ShiftPair(l, r) == l.k = "Int" /\ r.k = "Int" /\ r.int \in ShiftRhs

\* One of the arms before `_ =>` of the operator matches (l, r).
OwnRule(op, l, r) ==
    CASE op \in {"Add", "Sub"} ->
            \/ SameInt(l, r) \/ SameFloat(l, r)
            \/ l.k = "Ptr" /\ r.k = "Ptr" /\ l.inner = r.inner
            \/ l.k = "FnPtr" /\ r.k = "FnPtr" /\ l.sig = r.sig
            \/ l.k \in {"Ptr", "FnPtr", "Ref"} /\ SizeInt(r)
            \/ SizeInt(l) /\ r.k \in {"Ptr", "FnPtr"}
      [] op = "Mul" ->
            \/ SameInt(l, r) \/ SameFloat(l, r)
            \/ SizeInt(l) /\ r.k \in {"Ptr", "FnPtr"}
            \/ SizeInt(l) /\ r = IntT("I32")
      [] op \in {"Or", "XOr", "And"} -> SameInt(l, r) \/ (l = Bool /\ r = Bool)
      [] op = "Rem" -> (SameInt(l, r) /\ is_signed(r.int)) \/ SameFloat(l, r)
      [] op = "RemUn" -> (SameInt(l, r) /\ ~is_signed(r.int)) \/ SameFloat(l, r)
      [] op = "Shl" -> ShiftPair(l, r)
      [] op = "Shr" -> ShiftPair(l, r) /\ is_signed(l.int)
      [] op = "ShrUn" -> ShiftPair(l, r) /\ ~is_signed(l.int)
      [] op = "DivUn" -> SameInt(l, r) /\ l.int \in DivUnInts
      [] op = "Div" ->
            \/ SameInt(l, r) /\ l.int \in DivInts /\ is_signed(l.int)
            \/ SameFloat(l, r)

\* The one fallback the claim describes.
UniformFallback(op, l, r) ==
    IF /\ is_assignable_to(l, r) \/ is_assignable_to(r, l)
       /\ l.k = "Int" \/ r.k = "Int"
    THEN Ok(IF l.k = "Int" THEN l ELSE r)
    ELSE WrongBinopArgs(op, l, r)

C17_FallbackUniform ==
    (/\ last.call = "binop"
     /\ last.op \in FallbackOps
     /\ ~OwnRule(last.op, last.lhs, last.rhs))
        => last.out = UniformFallback(last.op, last.lhs, last.rhs)

(***************************************************************************)
(* C18: for Shl, a left operand of any integer type L with a right operand *)
(* of any integer type of a standard width other than 128 bits typechecks  *)
(* to Int(L); the same right operands serve Shr (L signed) and ShrUn       *)
(* (L unsigned).                                                           *)
(***************************************************************************)
\* The integer types of 8, 16 or 32 bits or of pointer size.
NarrowInts == {"I8", "U8", "I16", "U16", "I32", "U32", "ISize", "USize"}
\* The integer types of every standard width but 128 bits.
Non128Ints == NarrowInts \cup {"I64", "U64"}

\* The shift the last call applied suits its left operand.
ShiftSuits ==
    /\ last.call = "binop"
    /\ last.lhs.k = "Int"
    /\ last.rhs.k = "Int"
    /\ \/ last.op = "Shl"
       \/ last.op = "Shr" /\ is_signed(last.lhs.int)
       \/ last.op = "ShrUn" /\ ~is_signed(last.lhs.int)

\* The claim as stated: 64-bit shift amounts included.
C18_Original ==
    (ShiftSuits /\ last.rhs.int \in Non128Ints) => last.out = Ok(last.lhs)

\* C18, amended: the shift amounts are the integer types of 8, 16 or 32
\* bits or of pointer size; a 64-bit or 128-bit amount is taken only when
\* the fallback takes it, that is when it is the left operand's own type.
C18_ShiftAmounts ==
    ShiftSuits =>
        /\ last.rhs.int \in NarrowInts => last.out = Ok(last.lhs)
        /\ last.rhs.int \notin NarrowInts =>
                last.out = IF last.lhs = last.rhs
                           THEN Ok(last.lhs)
                           ELSE WrongBinopArgs(last.op, last.lhs, last.rhs)

C18_Witness ==
    /\ Applied("Shl", IntT("I128"), IntT("U8"))
    /\ last.out = Ok(IntT("I128"))

(***************************************************************************)
(* C19: Rem and RemUn on two floats of equal width typecheck with result   *)
(* Bool, not the float type, while Add, Sub, Mul and Div on the same       *)
(* operands return that float type.                                        *)
(***************************************************************************)
C19_FloatRem ==
    \A f \in Floats :
        /\ \A op \in {"Rem", "RemUn"} :
                Applied(op, FloatT(f), FloatT(f)) => last.out = Ok(Bool)
        /\ \A op \in {"Add", "Sub", "Mul", "Div"} :
                Applied(op, FloatT(f), FloatT(f)) => last.out = Ok(FloatT(f))

C19_Witness ==
    /\ Applied("Rem", FloatT("F64"), FloatT("F64"))
    /\ last.out = Ok(Bool)

(***************************************************************************)
(* C20: a field store applies to its target address the checks a field     *)
(* load applies to its base: given a value assignable to the field's       *)
(* declared type, SetField succeeds iff LdField on the same base and field *)
(* succeeds, and fails with the same kind of error when it fails; a base   *)
(* that is directly a ClassRef included.                                   *)
(***************************************************************************)
\* The field stores whose operands check and whose value suits the field.
SuitedFieldStores ==
    { i \in 1..Len(roots) :
        /\ roots[i].op = "SetField"
        /\ NodeRes(roots[i].addr).k = "Ok"
        /\ NodeRes(roots[i].val).k = "Ok"
        /\ is_assignable_to(NodeRes(roots[i].val).tpe, Fields[roots[i].fld].tpe) }

\* The outcome of loading the field of store i from the base of store i.
LoadOf(i) ==
    CILNode_typecheck([op |-> "LdField", addr |-> roots[i].addr,
                       field |-> roots[i].fld], types).r

SameVerdict(st, ld) ==
    /\ st.k = ld.k
    /\ st.k = "Err" => st.err.kind = ld.err.kind

C20_StoreLikeLoad ==
    \A i \in SuitedFieldStores : SameVerdict(RootRes(i), LoadOf(i))

(***************************************************************************)
(* C21: in a direct call statement a static call needs as many arguments   *)
(* as the signature has parameters (CallArgcWrong otherwise), the other    *)
(* kinds skip the count; for every kind each supplied argument is checked  *)
(* and must be assignable to its parameter, else the statement fails with  *)
(* CallArgTypeWrong or the argument's own error: no supplied argument is   *)
(* left unchecked.                                                         *)
(***************************************************************************)
\* Every node of ns checks, one after the other.
AllCheck(ns) ==
    /\ Len(Operands(ns)) = Len(ns)
    /\ \A k \in 1..Len(ns) : Operands(ns)[k].k = "Ok"

\* Argument k of call c, where it has a parameter, suits that parameter.
ArgSuits(c, k) ==
    k <= Len(Sigs[MethodRefs[c.mref].sig].inputs) =>
        is_assignable_to(Operands(c.args)[k].tpe,
                         Sigs[MethodRefs[c.mref].sig].inputs[k])

C21_CallStatement ==
    \A i \in 1..Len(roots) :
        roots[i].op = "Call" =>
            /\ StaticArgcOff(roots[i]) => RootRes(i) = ArgcWrong(roots[i])
            /\ ~StaticArgcOff(roots[i]) =>
                    /\ RootRes(i).k = "Ok" <=>
                            /\ AllCheck(roots[i].args)
                            /\ \A k \in 1..Len(roots[i].args) : ArgSuits(roots[i], k)
                    /\ RootRes(i).k = "Err" =>
                            \/ RootRes(i).err.kind = "CallArgTypeWrong"
                            \/ \E k \in 1..Len(roots[i].args) :
                                    RootRes(i) = NodeRes(roots[i].args[k])

(***************************************************************************)
(* C22: an indirect store whose operands check returns WriteWrongAddr iff  *)
(* the address type has no pointee or the declared type D does not suit    *)
(* the pointee P (D assignable to P, or both integers of one width once    *)
(* signedness is set aside, or P = Bool and D = I8); otherwise it returns  *)
(* WriteWrongValue iff the value type V does not suit D (V assignable to   *)
(* D, or both integers of one such width, or V = Bool and D = I8);         *)
(* otherwise it succeeds.  The address is reported before the value.       *)
(***************************************************************************)
\* Integer types of one width, signedness set aside.
SameWidth(a, b) ==
    /\ a.k = "Int"
    /\ b.k = "Int"
    /\ as_unsigned(a.int) = as_unsigned(b.int)

\* `from` may be written where `into` is expected.
Suits(from, into, bool_side) ==
    \/ is_assignable_to(from, into)
    \/ SameWidth(from, into)
    \/ bool_side = Bool /\ (IF bool_side = from THEN into ELSE from) = IntT("I8")

\* The indirect stores whose two operands check.
CheckedStores ==
    { i \in 1..Len(roots) :
        /\ roots[i].op = "StInd"
        /\ NodeRes(roots[i].addr).k = "Ok"
        /\ NodeRes(roots[i].value).k = "Ok" }

\* The pointee of the address of store i, as a set: empty when it has none.
Pointee(i) ==
    { CILRoot_typecheck(roots[i], types).ts[h] :
        h \in pointed_to(NodeRes(roots[i].addr).tpe) }

AddrSuits(i) == \E P \in Pointee(i) : Suits(roots[i].tpe, P, P)
ValueSuits(i) ==
    Suits(NodeRes(roots[i].value).tpe, roots[i].tpe, NodeRes(roots[i].value).tpe)

C22_IndirectStore ==
    \A i \in CheckedStores :
        /\ (RootRes(i).k = "Err" /\ RootRes(i).err.kind = "WriteWrongAddr")
                <=> ~AddrSuits(i)
        /\ (/\ RootRes(i).k = "Err"
            /\ RootRes(i).err.kind = "WriteWrongValue"
            /\ RootRes(i).err.tpe = roots[i].tpe
            /\ RootRes(i).err.value = NodeRes(roots[i].value).tpe)
                <=> (AddrSuits(i) /\ ~ValueSuits(i))
        /\ RootRes(i) = OkUnit <=> (AddrSuits(i) /\ ValueSuits(i))

\* A store that is wrong in its address and in its value was checked, and
\* the address was reported.
C22_Witness ==
    /\ last.call = "root"
    /\ last.idx \in CheckedStores
    /\ Pointee(last.idx) # {}
    /\ ~AddrSuits(last.idx)
    /\ ~ValueSuits(last.idx)
    /\ last.out.k = "Err"
    /\ last.out.err.kind = "WriteWrongAddr"

(***************************************************************************)
(* C23: a conditional branch on a relational condition over two operands   *)
(* that check succeeds only if the operands are assignable to one another  *)
(* and neither is a class reference to a value type; in every other case   *)
(* it fails with CantCompareTypes{lhs, rhs}.  The outcome does not depend  *)
(* on which operand is on the left.                                        *)
(***************************************************************************)
\* The branches on a relational condition whose two operands check.
RelationalBranches ==
    { i \in 1..Len(roots) :
        /\ roots[i].op = "Branch"
        /\ roots[i].cond.c \in RelationalConds
        /\ NodeRes(roots[i].cond.lhs).k = "Ok"
        /\ NodeRes(roots[i].cond.rhs).k = "Ok" }

ValueTypeRef(t) == \E c \in as_class_ref(t) : is_valuetype(c)

\* The branch r with the operands of its condition exchanged.
Swapped(r) ==
    [r EXCEPT !.cond = [c |-> r.cond.c, lhs |-> r.cond.rhs, rhs |-> r.cond.lhs]]

\* The branch may succeed: it compares what can be compared.
Comparable(l, r) ==
    /\ is_assignable_to(l, r) \/ is_assignable_to(r, l)
    /\ ~ValueTypeRef(l)
    /\ ~ValueTypeRef(r)

FullCalls ==
    { h \in 1..Len(nodes) :
        /\ nodes[h].op = "Call"
        /\ Len(nodes[h].args) = Len(Sigs[MethodRefs[nodes[h].mref].sig].inputs) }

\* a and p are pointer or reference types with the same pointee in ts.
SamePointee(a, p, ts) ==
    /\ a.k \in {"Ptr", "Ref"}
    /\ p.k \in {"Ptr", "Ref"}
    /\ ts[a.inner] = ts[p.inner]

\* Argument k of call h checks and is accepted for parameter k.
Accepted(h, k) ==
    /\ k <= Len(Operands(nodes[h].args))
    /\ Operands(nodes[h].args)[k].k = "Ok"
    /\ \/ is_assignable_to(Operands(nodes[h].args)[k].tpe,
                           Sigs[MethodRefs[nodes[h].mref].sig].inputs[k])
       \/ SamePointee(Operands(nodes[h].args)[k].tpe,
                      Sigs[MethodRefs[nodes[h].mref].sig].inputs[k],
                      CILNode_typecheck(nodes[h], types).ts)

\* Argument k of call h checks, is not accepted, and is the first such.
FirstRefused(h, k) ==
    /\ \A j \in 1..(k - 1) : Accepted(h, j)
    /\ k <= Len(Operands(nodes[h].args))
    /\ Operands(nodes[h].args)[k].k = "Ok"
    /\ ~Accepted(h, k)

C24_CallArguments ==
    \A h \in FullCalls :
        /\ \A k \in 1..Len(nodes[h].args) :
                FirstRefused(h, k) =>
                    /\ NodeRes(h).k = "Err"
                    /\ NodeRes(h).err.kind = "CallArgTypeWrong"
                    /\ NodeRes(h).err.idx = k - 1
        /\ NodeRes(h).k = "Ok" <=> \A k \in 1..Len(nodes[h].args) : Accepted(h, k)
        /\ NodeRes(h).k = "Ok" =>
                NodeRes(h).tpe = Sigs[MethodRefs[nodes[h].mref].sig].output

\* A call of p1(Ptr(V), I32) was checked whose first argument is a Ref(V),
\* which is not assignable to Ptr(V) here, and whose second is an I32.
C24_Witness ==
    /\ last.call = "node"
    /\ last.idx \in FullCalls
    /\ nodes[last.idx].mref = 7
    /\ coerce = {}
    /\ NodeRes(nodes[last.idx].args[1]).k = "Ok"
    /\ NodeRes(nodes[last.idx].args[1]).tpe = Ref(hClassV)
    /\ last.out = Ok(IntT("U8"))

(***************************************************************************)
(* C25: load-field-address and load-field take a base of type Ptr, Ref or  *)
(* directly ClassRef and refuse every other base with TypeNotPtr; for a    *)
(* base they take whose owner and definition checks pass, the address      *)
(* through Ref(C) is Ref(F), through Ptr(C) is Ptr(F), and the load gives  *)
(* F, the field's declared type.                                           *)
(***************************************************************************)
\* The field accesses whose base checks.
FieldAccesses ==
    { h \in 1..Len(nodes) :
        /\ nodes[h].op \in {"LdFieldAddress", "LdField"}
        /\ NodeRes(nodes[h].addr).k = "Ok" }

BaseOf(h) == NodeRes(nodes[h].addr).tpe
ArenaAfter(h) == CILNode_typecheck(nodes[h], types).ts

\* The class the base of h stands for, as a set: the pointee of a Ptr or a
\* Ref, or the base itself.
BaseClass(h) ==
    IF BaseOf(h).k \in {"Ptr", "Ref"} THEN { ArenaAfter(h)[BaseOf(h).inner] }
    ELSE { BaseOf(h) }

\* The owner and definition checks of h pass.
FieldChecksPass(h) ==
    /\ BaseClass(h) = { ClassRef(Fields[nodes[h].field].owner) }
    /\ \/ Fields[nodes[h].field].owner \notin DOMAIN ClassDefs
       \/ << Fields[nodes[h].field].tpe, Fields[nodes[h].field].name >>
                \in ClassDefs[Fields[nodes[h].field].owner]

TypeNotPtr(t) == Err([kind |-> "TypeNotPtr", tpe |-> t])

\* res is a success whose type is a `kind` (Ptr or Ref) to the type f.
PointsAt(h, kind, f) ==
    /\ NodeRes(h).k = "Ok"
    /\ NodeRes(h).tpe.k = kind
    /\ ArenaAfter(h)[NodeRes(h).tpe.inner] = f

SignednessOps == {"Rem", "RemUn", "Div", "DivUn", "Shr", "ShrUn"}

C28_SignednessFree ==
    \A i \in Ints : \A op \in SignednessOps :
        Applied(op, IntT(i), IntT(i)) => last.out = Ok(IntT(i))

\* The unsigned remainder of two signed operands was checked.
C28_Witness ==
    /\ Applied("RemUn", IntT("I32"), IntT("I32"))
    /\ last.out = Ok(IntT("I32"))

(***************************************************************************)
(* The atomics test (test/intrinsics/atomics.rs): a straight-line program  *)
(* over a few memory locations.  A value is the set of the bit positions   *)
(* that are 1 in it, so that 32- and 64-bit values keep their width.  The  *)
(* program counter, the memory and the last returned value are held in     *)
(* `last`.                                                                 *)
(***************************************************************************)
MaxAddr == 8

Bits(n) == { i \in 0..30 : (n \div (2 ^ i)) % 2 = 1 }

Word(bits) == 0 .. (bits - 1)

RECURSIVE AddBits(_, _, _, _, _)
\* Ripple-carry addition of a and b from bit i on, wrapping at `bits`.
AddBits(a, b, i, carry, bits) ==
    IF i = bits THEN {}
    ELSE (IF ((IF i \in a THEN 1 ELSE 0) + (IF i \in b THEN 1 ELSE 0) + carry) % 2 = 1
          THEN {i} ELSE {})
         \cup AddBits(a, b, i + 1,
                      ((IF i \in a THEN 1 ELSE 0) + (IF i \in b THEN 1 ELSE 0) + carry) \div 2,
                      bits)

wrapping_add(a, b, bits) == AddBits(a, b, 0, 0, bits)
wrapping_sub(a, b, bits) == AddBits(a, Word(bits) \ b, 0, 1, bits)

\* An atomic read-modify-write of `bits` bits: the value returned and the
\* value left in the location.
AtomicRMW(op, old, x, bits) ==
    [ret |-> old,
     new |-> CASE op = "xadd" -> wrapping_add(old, x, bits)
               [] op = "xsub" -> wrapping_sub(old, x, bits)
               [] op = "and" -> old \cap x
               [] op = "or" -> old \cup x
               [] op = "xor" -> (old \cup x) \ (old \cap x)
               [] op = "nand" -> Word(bits) \ (old \cap x)]

Locs == {"u", "tmp", "arr0", "arr1", "arr2", "arr3", "atom", "atomic", "x"}

\* The bytes that follow a byte of the array in its word.
BytesAfter(loc) ==
    CASE loc = "arr0" -> {"arr1", "arr2", "arr3"}
      [] loc = "arr1" -> {"arr2", "arr3"}
      [] loc = "arr2" -> {"arr3"}
      [] OTHER -> {}

\* WriteBack storing a whole word at the location: the bytes after it in the
\* array are overwritten with the word's upper bytes.
WriteBack_Word(mem, loc, new) ==
    [l \in Locs |-> IF l = loc THEN new
                    ELSE IF l \in BytesAfter(loc) THEN {}
                    ELSE mem[l]]

\* The store an atomic operation makes: the one location, as wide as the
\* operation.
WriteBack(mem, loc, new) == [mem EXCEPT ![loc] = new]

MASK_TAG == Bits(15)

\* MASK_PTR clearing three tag bits only.
MASK_PTR_Narrow == Word(64) \ Bits(7)

MASK_PTR == Word(64) \ MASK_TAG

\* main, with ptr_bitops_tagging, ptr_add_data and int_and inlined where they
\* are called; ptr and n are the addresses of `tagme` and `num`.
AtomicsTest(ptr, n) ==
    << [s |-> "let", set |-> [u |-> Bits(20)]],
       [s |-> "rmw", op |-> "xsub", loc |-> "u", arg |-> Bits(10), bits |-> 32],
       [s |-> "test_ret", val |-> Bits(20)],
       [s |-> "let", set |-> [u |-> Bits(20)]],
       [s |-> "cxchg", loc |-> "u", old |-> Bits(20), src |-> Bits(10)],
       [s |-> "test_ret", val |-> Bits(20)],
       [s |-> "test_loc", loc |-> "u", val |-> Bits(10)],
       [s |-> "cxchg", loc |-> "u", old |-> Bits(10), src |-> Bits(20)],
       [s |-> "test_ret", val |-> Bits(10)],
       [s |-> "let", set |-> [tmp |-> Bits(255)]],
       [s |-> "rmw", op |-> "xor", loc |-> "tmp", arg |-> Bits(10), bits |-> 32],
       [s |-> "test_ret", val |-> Bits(255)],
       [s |-> "test_loc", loc |-> "tmp",
        val |-> (Bits(255) \cup Bits(10)) \ (Bits(255) \cap Bits(10))],
       [s |-> "let", set |-> [tmp |-> Bits(255)]],
       [s |-> "rmw", op |-> "nand", loc |-> "tmp", arg |-> Bits(10), bits |-> 32],
       [s |-> "test_ret", val |-> Bits(255)],
       [s |-> "test_loc", loc |-> "tmp", val |-> Word(32) \ (Bits(255) \cap Bits(10))],
       [s |-> "let", set |-> [tmp |-> Bits(255)]],
       [s |-> "rmw", op |-> "nand", loc |-> "tmp", arg |-> Bits(10), bits |-> 8],
       [s |-> "test_ret", val |-> Bits(255)],
       [s |-> "test_loc", loc |-> "tmp", val |-> Word(8) \ (Bits(255) \cap Bits(10))],
       [s |-> "let", set |-> [arr0 |-> Bits(18), arr1 |-> Bits(255),
                              arr2 |-> Bits(69), arr3 |-> Bits(103)]],
       [s |-> "rmw", op |-> "nand", loc |-> "arr1", arg |-> Bits(10), bits |-> 8],
       [s |-> "test_ret", val |-> Bits(255)],
       [s |-> "test_loc", loc |-> "arr0", val |-> Bits(18)],
       [s |-> "test_loc", loc |-> "arr1", val |-> Word(8) \ (Bits(255) \cap Bits(10))],
       [s |-> "test_loc", loc |-> "arr2", val |-> Bits(69)],
       [s |-> "test_loc", loc |-> "arr3", val |-> Bits(103)],
       \* ptr_bitops_tagging
       [s |-> "addr", var |-> "ptr", align |-> 16],
       [s |-> "let", set |-> [atom |-> ptr]],
       [s |-> "test_val", got |-> ptr \cap MASK_TAG, val |-> Bits(0)],
       [s |-> "rmw", op |-> "or", loc |-> "atom", arg |-> Bits(7), bits |-> 64],
       [s |-> "test_ret", val |-> ptr],
       [s |-> "test_loc", loc |-> "atom", val |-> ptr \cup Bits(7)],
       [s |-> "rmw", op |-> "and", loc |-> "atom", arg |-> MASK_PTR \cup Bits(2),
        bits |-> 64],
       [s |-> "test_ret", val |-> ptr \cup Bits(7)],
       [s |-> "test_loc", loc |-> "atom", val |-> ptr \cup Bits(2)],
       [s |-> "rmw", op |-> "xor", loc |-> "atom", arg |-> Bits(11), bits |-> 64],
       [s |-> "test_ret", val |-> ptr \cup Bits(2)],
       [s |-> "test_loc", loc |-> "atom", val |-> ptr \cup Bits(9)],
       [s |-> "rmw", op |-> "and", loc |-> "atom", arg |-> MASK_PTR, bits |-> 64],
       [s |-> "test_ret", val |-> ptr \cup Bits(9)],
       [s |-> "test_loc", loc |-> "atom", val |-> ptr],
       \* ptr_add_data
       [s |-> "addr", var |-> "n", align |-> 8],
       [s |-> "let", set |-> [atom |-> n]],
       [s |-> "rmw", op |-> "xadd", loc |-> "atom", arg |-> Bits(8), bits |-> 64],
       [s |-> "test_ret", val |-> n],
       [s |-> "test_loc", loc |-> "atom", val |-> wrapping_add(n, Bits(8), 64)],
       [s |-> "rmw", op |-> "xsub", loc |-> "atom", arg |-> Bits(8), bits |-> 64],
       [s |-> "test_ret", val |-> wrapping_add(n, Bits(8), 64)],
       [s |-> "test_loc", loc |-> "atom", val |-> n],
       [s |-> "rmw", op |-> "xadd", loc |-> "atom", arg |-> Bits(1), bits |-> 64],
       [s |-> "test_ret", val |-> n],
       [s |-> "test_loc", loc |-> "atom", val |-> wrapping_add(n, Bits(1), 64)],
       [s |-> "rmw", op |-> "xadd", loc |-> "atom", arg |-> Bits(5), bits |-> 64],
       [s |-> "test_ret", val |-> wrapping_add(n, Bits(1), 64)],
       [s |-> "test_loc", loc |-> "atom", val |-> wrapping_add(n, Bits(6), 64)],
       [s |-> "rmw", op |-> "xsub", loc |-> "atom", arg |-> Bits(1), bits |-> 64],
       [s |-> "test_ret", val |-> wrapping_add(n, Bits(6), 64)],
       [s |-> "test_loc", loc |-> "atom", val |-> wrapping_add(n, Bits(5), 64)],
       [s |-> "rmw", op |-> "xsub", loc |-> "atom", arg |-> Bits(5), bits |-> 64],
       [s |-> "test_ret", val |-> wrapping_add(n, Bits(5), 64)],
       [s |-> "test_loc", loc |-> "atom", val |-> n],
       \* back in main
       [s |-> "let", set |-> [atomic |-> Bits(0)]],
       [s |-> "test_loc", loc |-> "atomic", val |-> Bits(0)],
       [s |-> "rmw", op |-> "xadd", loc |-> "atomic", arg |-> Bits(1), bits |-> 64],
       [s |-> "test_ret", val |-> Bits(0)],
       \* int_and
       [s |-> "let", set |-> [x |-> Bits(63281)]],
       [s |-> "rmw", op |-> "and", loc |-> "x", arg |-> Bits(4991), bits |-> 64],
       [s |-> "test_ret", val |-> Bits(63281)],
       [s |-> "test_loc", loc |-> "x", val |-> Bits(63281) \cap Bits(4991)] >>

\* The statement the program is at, if it is still running.
Running == last.call = "atomics" /\ ~last.failed /\ last.pc <= Len(AtomicsTest({}, {}))
Stmt == AtomicsTest(last.ptr, last.n)[last.pc]

InitAtomics ==
    /\ types = InitTypes
    /\ nodes = << >>
    /\ roots = << >>
    /\ coerce = {}
    /\ unit = "atomics"
    /\ last = [call |-> "atomics", pc |-> 1, mem |-> [l \in Locs |-> {}],
               pre |-> [l \in Locs |-> {}], ret |-> {}, ptr |-> {}, n |-> {},
               failed |-> FALSE]

\* let mut v = value; let mut arr = [..]; AtomicPtr::new(p).
Let ==
    /\ Running
    /\ Stmt.s = "let"
    /\ last' = [last EXCEPT
                  !.pc = @ + 1,
                  !.pre = last.mem,
                  !.mem = [l \in Locs |-> IF l \in DOMAIN Stmt.set THEN Stmt.set[l]
                                          ELSE last.mem[l]]]
    /\ UNCHANGED <<types, nodes, roots, coerce, unit>>

\* &tagme / &num: the local is placed at some address of its alignment.
AddrOf ==
    /\ Running
    /\ Stmt.s = "addr"
    /\ \E k \in 1..MaxAddr :
         last' = [last EXCEPT
                    !.pc = @ + 1,
                    !.pre = last.mem,
                    !.ptr = IF Stmt.var = "ptr" THEN Bits(Stmt.align * k) ELSE @,
                    !.n = IF Stmt.var = "n" THEN Bits(Stmt.align * k) ELSE @]
    /\ UNCHANGED <<types, nodes, roots, coerce, unit>>

\* atomic_xsub, atomic_xor_u32, atomic_nand_u32, atomic_nand_u8, fetch_or,
\* fetch_and, fetch_xor, fetch_add, fetch_ptr_add, ...
AtomicOp ==
    /\ Running
    /\ Stmt.s = "rmw"
    /\ last' = [last EXCEPT
                  !.pc = @ + 1,
                  !.pre = last.mem,
                  !.ret = AtomicRMW(Stmt.op, last.mem[Stmt.loc], Stmt.arg, Stmt.bits).ret,
                  !.mem = WriteBack(last.mem, Stmt.loc,
                            AtomicRMW(Stmt.op, last.mem[Stmt.loc], Stmt.arg, Stmt.bits).new)]
    /\ UNCHANGED <<types, nodes, roots, coerce, unit>>

\* atomic_cxchgweak(dst, old, src): src is stored when dst holds old.
CompareExchange ==
    /\ Running
    /\ Stmt.s = "cxchg"
    /\ last' = [last EXCEPT
                  !.pc = @ + 1,
                  !.pre = last.mem,
                  !.ret = last.mem[Stmt.loc],
                  !.mem = IF last.mem[Stmt.loc] = Stmt.old
                          THEN WriteBack(last.mem, Stmt.loc, Stmt.src)
                          ELSE last.mem]
    /\ UNCHANGED <<types, nodes, roots, coerce, unit>>

\* test_eq!(got, expected): the test goes on when the two are equal and
\* stops as failed otherwise.
TestEq ==
    /\ Running
    /\ Stmt.s \in {"test_ret", "test_loc", "test_val"}
    /\ last' = [last EXCEPT
                  !.pc = @ + 1,
                  !.pre = last.mem,
                  !.failed = Stmt.val #
                               (CASE Stmt.s = "test_ret" -> last.ret
                                  [] Stmt.s = "test_loc" -> last.mem[Stmt.loc]
                                  [] Stmt.s = "test_val" -> Stmt.got)]
    /\ UNCHANGED <<types, nodes, roots, coerce, unit>>

NextAtomics ==
    \/ Let
    \/ AddrOf
    \/ AtomicOp
    \/ CompareExchange
    \/ TestEq

SpecAtomics == InitAtomics /\ [][NextAtomics]_vars

(***************************************************************************)
(* C26: every atomic read-modify-write the atomics test makes (xsub, xor,  *)
(* nand, fetch_or, fetch_and, fetch_xor, fetch_add, and compare-exchange   *)
(* on a location holding the expected value) returns the value the         *)
(* location held just before and leaves op(old, operand), resp. the new    *)
(* value, in it, and every load the test makes after one sees that value:  *)
(* no test_eq! of the test fails.                                          *)
(***************************************************************************)
\* The statement the program has just executed.
Done == AtomicsTest(last.ptr, last.n)[last.pc - 1]
Did(kind) == last.call = "atomics" /\ last.pc > 1 /\ Done.s = kind

RECURSIVE Num(_)
\* The number a value stands for (values below 2^31 only).
Num(v) ==
    IF v = {} THEN 0
    ELSE (2 ^ (CHOOSE j \in v : TRUE)) + Num(v \ {CHOOSE j \in v : TRUE})

\* new is op(old, x), stated bit by bit, or by the numbers for the sums.
IsOp(op, old, x, new, bits) ==
    /\ new \subseteq Word(bits)
    /\ CASE op = "and" -> \A i \in Word(bits) : i \in new <=> (i \in old /\ i \in x)
         [] op = "or" -> \A i \in Word(bits) : i \in new <=> (i \in old \/ i \in x)
         [] op = "xor" -> \A i \in Word(bits) : i \in new <=> ((i \in old) # (i \in x))
         [] op = "nand" -> \A i \in Word(bits) : i \in new <=> ~(i \in old /\ i \in x)
         [] op = "xadd" -> Num(new) = Num(old) + Num(x)
         [] op = "xsub" -> Num(new) = Num(old) - Num(x)

NandOnArr1 == Did("rmw") /\ Done.op = "nand" /\ Done.loc = "arr1"

C27_ByteFrame ==
    NandOnArr1 =>
        /\ last.mem["arr1"] = Word(8) \ (last.pre["arr1"] \cap Done.arg)
        /\ last.ret = last.pre["arr1"]
        /\ \A l \in {"arr0", "arr2", "arr3"} : last.mem[l] = last.pre[l]

C27_Witness ==
    /\ NandOnArr1
    /\ last.pre["arr1"] = Bits(255)
    /\ last.mem["arr1"] = Bits(245)
    /\ last.mem["arr0"] = Bits(18)
    /\ last.mem["arr2"] = Bits(69)
    /\ last.mem["arr3"] = Bits(103)

(***************************************************************************)
(* Terminator lowering (src/terminator/mod.rs): handle_terminator turns    *)
(* the terminator of a basic block into a sequence of trees.  A tree is a  *)
(* record naming its root; the input terminator, the trees made from it    *)
(* and, for a switch, the position of a run through them are held in       *)
(* `last`.                                                                 *)
(***************************************************************************)
MaxBlock == 2
MaxPairs == 2

Blocks == 0..MaxBlock
\* Option<BasicBlock>.
None == [opt |-> "None"]
Some(b) == [opt |-> "Some", v |-> b]

GoTo(target) == [r |-> "GoTo", target |-> target, sub_target |-> 0]
BTrue(target, cond) == [r |-> "BTrue", target |-> target, cond |-> cond, sub_target |-> 0]
\* V1Root::throw(msg, ctx).
throw(msg) == [r |-> "Throw", msg |-> msg]

\* What a call of the lowering gives: the trees, or the panic it stops with.
Trees(ts) == [k |-> "trees", trees |-> ts]
Todo == [k |-> "todo"]
UnwrapNone == [k |-> "unwrap"]
AssertFired == [k |-> "assert"]

\* The trees call::call may make for a call of a function definition.
CallOps ==
    { << >>,
      << [r |-> "Call", site |-> "callee"] >>,
      << [r |-> "StLoc", tree |-> "Call"] >>,
      << [r |-> "V2", root |-> "StInd"], [r |-> "Call", site |-> "callee"] >> }

\* handle_call_terminator keeping no final jump.
handle_call_terminator_NoJump(t) ==
    CASE t.func = "FnDef" -> Trees(t.ops)
      [] t.func = "FnPtr" ->
            Trees(<< IF t.void THEN [r |-> "CallI", sig |-> "void"]
                     ELSE [r |-> "V2", root |-> "place_set"] >>)
      [] OTHER -> Todo

handle_call_terminator(t) ==
    CASE t.func = "FnDef" ->
            Trees(t.ops \o << IF t.target # None THEN GoTo(t.target.v)
                              ELSE throw("Function returning Never returned!") >>)
      [] t.func = "FnPtr" ->
            Trees(<< IF t.void THEN [r |-> "CallI", sig |-> "void"]
                     ELSE [r |-> "V2", root |-> "place_set"],
                     IF t.target # None THEN GoTo(t.target.v)
                     ELSE throw("Function returning Never returned!") >>)
      [] OTHER -> Todo

SwitchTys == {"Int", "Uint", "Bool", "Char"}

\* The constant a switch value is loaded as: load_const_int (here at 8 bits,
\* two's complement), load_const_uint, or `value != 0` for a bool.
const_val(ty, value) ==
    CASE ty = "Int" -> [ty |-> ty, int |-> IF value >= 128 THEN value - 256 ELSE value]
      [] ty = "Uint" -> [ty |-> ty, int |-> value]
      [] ty = "Bool" -> [ty |-> ty, bool |-> value # 0]
      [] ty = "Char" -> [ty |-> "Uint", int |-> value]

\* crate::binop::cmp::eq_unchecked(ty, discr, const_val, ctx).
eq_unchecked(ty, a, b) == [n |-> "Eq", ty |-> ty, a |-> a, b |-> b]

\* handle_switch taking the pairs in the reverse of their order.
handle_switch_Reversed(ty, pairs, otherwise) ==
    Trees([i \in 1..Len(pairs) |->
              BTrue(pairs[Len(pairs) + 1 - i][2],
                    eq_unchecked(ty, "discr", const_val(ty, pairs[Len(pairs) + 1 - i][1])))]
          \o << GoTo(otherwise) >>)

handle_switch(ty, pairs, otherwise) ==
    IF ty \notin SwitchTys THEN Todo
    ELSE Trees([i \in 1..Len(pairs) |->
                   BTrue(pairs[i][2],
                         eq_unchecked(ty, "discr", const_val(ty, pairs[i][1])))]
               \o << GoTo(otherwise) >>)

AssertKinds ==
    [ Overflow |-> "assert_add", OverflowNeg |-> "assert_neg_overflow",
      BoundsCheck |-> "assert_bounds_check",
      NullPointerDereference |-> "assert_notnull",
      MisalignedPointerDereference |-> "assert_ptr_align",
      DivisionByZero |-> "assert_zero_div", RemainderByZero |-> "assert_zero_rem",
      ResumedAfterReturn |-> "assert_coroutine_resume_after_return",
      ResumedAfterPanic |-> "assert_coroutine_resume_after_panic",
      ResumedAfterDrop |-> "assert_coroutine_resume_after_drop" ]

\* The match on terminator.kind: the trees of each arm.
terminator_res(t) ==
    CASE t.kind = "Call" -> handle_call_terminator(t)
      [] t.kind = "TailCall" -> Todo
      [] t.kind = "Return" ->
            Trees(<< IF t.void THEN [r |-> "VoidRet"]
                     ELSE [r |-> "Ret", tree |-> "LDLoc(0)"] >>)
      [] t.kind = "SwitchInt" -> handle_switch(t.ty, t.pairs, t.otherwise)
      [] t.kind = "Assert" ->
            Trees(<< [r |-> "Call", site |-> AssertKinds[t.msg],
                      args |-> << IF t.expected THEN "cond" ELSE "Eq(cond, expected)" >>],
                     GoTo(t.target) >>)
      [] t.kind = "Goto" -> Trees(<< GoTo(t.target) >>)
      [] t.kind = "UnwindResume" -> Trees(<< [r |-> "ReThrow"] >>)
      [] t.kind = "Drop" ->
            CASE t.glue = "Empty" -> Trees(<< GoTo(t.target) >>)
              [] t.glue = "Dyn" ->
                    Trees(<< [r |-> "BEq", target |-> t.target, sub_target |-> 0],
                             [r |-> "CallI", sig |-> "void"],
                             GoTo(t.target) >>)
              [] t.glue = "DynStar" -> Todo
              [] OTHER ->
                    Trees(<< [r |-> "Call", site |-> "drop_in_place"], GoTo(t.target) >>)
      [] t.kind = "Unreachable" -> Trees(<< [r |-> "V2", root |-> "Unreachable"] >>)
      [] t.kind = "InlineAsm" -> Trees(<< throw("Inline assembly is not yet supported!") >>)
      [] t.kind = "UnwindTerminate" ->
            Trees(<< [r |-> "Call", site |-> "debug"], [r |-> "ReThrow"] >>)
      [] t.kind \in {"FalseEdge", "FalseUnwind"} -> Trees(<< GoTo(t.real_target) >>)
      [] t.kind \in {"CoroutineDrop", "Yield"} -> Todo

Unconditional == {"GoTo", "Ret", "VoidRet", "ReThrow", "Throw", "V2"}

\* handle_terminator: the arm's trees, returned at once for a bounds check
\* and after the assertion on the last tree otherwise.
handle_terminator_checked(t, res) ==
    IF res.k # "trees" THEN res
    ELSE IF t.kind = "Assert" /\ t.msg = "BoundsCheck" THEN res
    ELSE IF res.trees = << >> THEN UnwrapNone
    ELSE IF res.trees[Len(res.trees)].r \notin Unconditional THEN AssertFired
    ELSE res

handle_terminator(t) == handle_terminator_checked(t, terminator_res(t))

SwitchValues(ty) == IF ty = "Bool" THEN {0, 1} ELSE {0, 1, 255}

Pairs(ty) ==
    UNION { [1..n -> SwitchValues(ty) \X Blocks] : n \in 0..MaxPairs }

Targets == { Some(b) : b \in Blocks } \cup {None}

\* The terminators of a function body.
Terminators ==
    { [kind |-> "Call", func |-> "FnDef", ops |-> o, target |-> b] :
        o \in CallOps, b \in Targets }
    \cup { [kind |-> "Call", func |-> "FnPtr", void |-> v, target |-> b] :
        v \in BOOLEAN, b \in Targets }
    \cup { [kind |-> "Return", void |-> v] : v \in BOOLEAN }
    \cup UNION { { [kind |-> "SwitchInt", ty |-> ty, pairs |-> p, otherwise |-> b] :
                    p \in Pairs(ty), b \in Blocks } : ty \in SwitchTys }
    \cup { [kind |-> "Assert", expected |-> e, msg |-> m, target |-> b] :
        e \in BOOLEAN, m \in DOMAIN AssertKinds, b \in Blocks }
    \cup { [kind |-> "Goto", target |-> b] : b \in Blocks }
    \cup { [kind |-> "Drop", glue |-> g, target |-> b] :
        g \in {"Empty", "Dyn", "DynStar", "Glue"}, b \in Blocks }
    \cup { [kind |-> k, real_target |-> b] :
        k \in {"FalseEdge", "FalseUnwind"}, b \in Blocks }
    \cup { [kind |-> k] :
        k \in {"UnwindResume", "Unreachable", "InlineAsm", "UnwindTerminate",
               "TailCall", "CoroutineDrop", "Yield"} }

InitTerminator ==
    /\ types = InitTypes
    /\ nodes = << >>
    /\ roots = << >>
    /\ coerce = {}
    /\ unit = "terminator"
    /\ last \in { [call |-> "input", term |-> t] : t \in Terminators }

\* handle_terminator(terminator, ctx).
HandleTerminator ==
    /\ last.call = "input"
    /\ last' = [call |-> "terminator", term |-> last.term,
                out |-> handle_terminator(last.term)]
    /\ UNCHANGED <<types, nodes, roots, coerce, unit>>

\* Control enters the trees of a lowered switch with some discriminant (its
\* bits, as the switch values are).
EnterSwitch ==
    /\ last.call = "terminator"
    /\ last.term.kind = "SwitchInt"
    /\ last.out.k = "trees"
    /\ \E d \in SwitchValues(last.term.ty) :
         last' = [call |-> "run", term |-> last.term, out |-> last.out,
                  discr |-> d, pc |-> 1, at |-> None]
    /\ UNCHANGED <<types, nodes, roots, coerce, unit>>

\* The condition of a BTrue holds for the discriminant.
Holds(cond, d) == const_val(cond.ty, d) = cond.b

\* One tree of the lowered switch runs: a BTrue jumps when its condition
\* holds and falls through otherwise, a GoTo jumps.
RunTree ==
    /\ last.call = "run"
    /\ last.at = None
    /\ last.pc <= Len(last.out.trees)
    /\ last' = [last EXCEPT
                  !.at = IF last.out.trees[last.pc].r = "GoTo"
                            \/ Holds(last.out.trees[last.pc].cond, last.discr)
                         THEN Some(last.out.trees[last.pc].target) ELSE None,
                  !.pc = @ + 1]
    /\ UNCHANGED <<types, nodes, roots, coerce, unit>>

NextTerminator ==
    \/ HandleTerminator
    \/ EnterSwitch
    \/ RunTree

SpecTerminator == InitTerminator /\ [][NextTerminator]_vars

(***************************************************************************)
(* C29: for every supported terminator kind (Call, Return, SwitchInt,      *)
(* Assert, Goto, UnwindResume, Drop, Unreachable, InlineAsm,               *)
(* UnwindTerminate, FalseEdge, FalseUnwind) handle_terminator returns a    *)
(* non-empty sequence of trees whose last tree is an unconditional         *)
(* control transfer, so that its final assertion never fires; a call       *)
(* terminator ends with a GoTo to its target when it has one and with a    *)
(* throw when it has none.  A case the lowering leaves as todo!() (the     *)
(* drop of a dyn* place) is not a supported one.                           *)
(***************************************************************************)
SupportedKinds ==
    {"Call", "Return", "SwitchInt", "Assert", "Goto", "UnwindResume", "Drop",
     "Unreachable", "InlineAsm", "UnwindTerminate", "FalseEdge", "FalseUnwind"}

Lowered == last.call = "terminator"

LastTree == last.out.trees[Len(last.out.trees)]

SwitchLowered == last.call \in {"terminator", "run"} /\ last.term.kind = "SwitchInt"

\* The pairs whose value the discriminant equals.
Matching(d) == { i \in 1..Len(last.term.pairs) : last.term.pairs[i][1] = d }

Earliest(S) == CHOOSE i \in S : \A j \in S : i <= j

C30_SwitchOrder ==
    /\ SwitchLowered =>
          /\ last.out.k = "trees"
          /\ Len(last.out.trees) = Len(last.term.pairs) + 1
          /\ \A i \in 1..Len(last.term.pairs) :
                /\ last.out.trees[i].r = "BTrue"
                /\ last.out.trees[i].target = last.term.pairs[i][2]
                /\ \A d \in SwitchValues(last.term.ty) :
                      Holds(last.out.trees[i].cond, d) <=> d = last.term.pairs[i][1]
          /\ last.out.trees[Len(last.out.trees)] = GoTo(last.term.otherwise)
    /\ (SwitchLowered /\ last.call = "run" /\ last.at # None) =>
          last.at = Some(IF Matching(last.discr) = {} THEN last.term.otherwise
                         ELSE last.term.pairs[Earliest(Matching(last.discr))][2])
    /\ (SwitchLowered /\ last.call = "run" /\ last.at = None) =>
          last.pc <= Len(last.out.trees)

\* Two pairs list the discriminant's value with different targets, and the
\* run took the first.
C30_Witness ==
    /\ SwitchLowered
    /\ last.call = "run"
    /\ Matching(last.discr) = {1, 2}
    /\ last.term.pairs[1][2] # last.term.pairs[2][2]
    /\ last.term.otherwise # last.term.pairs[1][2]
    /\ last.at = Some(last.term.pairs[1][2])

====
